---- MODULE Spec2Model ----
(***************************************************************************)
(* Render-state tracking, pipeline-state cache and draw submission of the  *)
(* Diligent graphics backend (Source/Urho3D/Graphics/Diligent).            *)
(*                                                                         *)
(* The whole state of Graphics and GraphicsImpl, of the GPU objects they   *)
(* reach and of the device behind them is one record, g.  Every method of  *)
(* the backend is an operator from a state record to the state record it   *)
(* leaves, so that a method calling another (PrepareDraw -> SetViewport -> *)
(* SetScissorTest, SetRenderTarget -> SetTexture) is the composition the   *)
(* code performs.  An action applies one public method to g.               *)
(*                                                                         *)
(* Number representation.  TLC integers are 32-bit signed.  A C++          *)
(* `unsigned` is held as the signed integer with the same 32-bit pattern   *)
(* (M_MAX_UNSIGNED, 0xffffffff, is -1) and compared with ULess.  The       *)
(* 64-bit vertex-declaration hash is held as four 16-bit lanes, lowest     *)
(* first.  constantDepthBias_ is held in units of 2^-24 and                *)
(* slopeScaledDepthBias_ in units of 1/100, which makes the two float to   *)
(* int conversions of PrepareDraw exact integer operations.                *)
(***************************************************************************)
EXTENDS Integers, Sequences, FiniteSets, TLC

VARIABLES
    g,        \* program state: Graphics, GraphicsImpl, GPU objects, device
    call,     \* the public method invoked last and what it was given
    hist      \* what earlier draws used, as the claims about draws need it

vars == <<g, call, hist>>

NULL == "null"

-----------------------------------------------------------------------------
(* Program constants                                                       *)

M_MAX_UNSIGNED == -1
MAX_VERTEX_STREAMS == 4
MAX_TEXTURE_UNITS == 16
MAX_RENDERTARGETS == 4
MAX_SHADER_PARAMETER_GROUPS == 7

VS == 0
PS == 1

SP_FRAME == 0
SP_CAMERA == 1
SP_ZONE == 2
SP_LIGHT == 3
SP_MATERIAL == 4
SP_OBJECT == 5

BLEND_REPLACE == 0
BLEND_ADD == 1
CMP_ALWAYS == 0
CMP_EQUAL == 1
CMP_LESSEQUAL == 4
OP_KEEP == 0
OP_ZERO == 1
OP_REF == 2
CULL_NONE == 0
CULL_CCW == 1
CULL_CW == 2
FILL_SOLID == 0
FILL_WIREFRAME == 1
FILL_POINT == 2
TRIANGLE_LIST == 0
LINE_LIST == 1
POINT_LIST == 2
TRIANGLE_STRIP == 3
LINE_STRIP == 4
TRIANGLE_FAN == 5

BlendModes == 0..8
CompareModes == 0..6
StencilOps == 0..4
CullModes == 0..2
FillModes == 0..2
PrimitiveTypes == 0..5

Streams == 0..(MAX_VERTEX_STREAMS - 1)
TextureUnits == 0..(MAX_TEXTURE_UNITS - 1)
RenderTargetSlots == 0..(MAX_RENDERTARGETS - 1)
ParameterGroups == 0..(MAX_SHADER_PARAMETER_GROUPS - 1)

-----------------------------------------------------------------------------
(* Bounds of the model                                                     *)

MaxBatches == 3        \* draws accepted in one behaviour
\* calls other than draws in one behaviour of
MaxBiasCalls == 4      \* SpecDepthBias
MaxKeyCalls == 3       \* SpecKey
MaxRedirectCalls == 3  \* SpecRedirect
MaxFlushCalls == 3     \* SpecFlush
MaxValueCalls == 3     \* SpecValue
MaxReferenceCalls == 3 \* SpecReference
MaxTextureCalls == 4   \* SpecTexture
MaxMirrorCalls == 4    \* SpecMirror
MaxStepCalls == 4      \* SpecSteps
MaxCreateCalls == 1    \* SpecGroups
MaxPackCalls == 2      \* SpecPacking
MaxCompileCalls == 4   \* SpecCompile
MaxResolveCalls == 4   \* SpecResolve
MaxTargetCalls == 4    \* SpecTargets
MaxPrepareCalls == 3   \* SpecPrepare
MaxDirtCalls == 3      \* SpecDirt
MaxProgramCalls == 3   \* SpecProgram
MaxRangesCalls == 3    \* SpecRanges
MaxUnbindCalls == 4    \* SpecUnbind
MaxReflected == 8      \* constant buffers one shader declares
MaxStreamCalls == 3    \* SpecStreams
MaxOrderCalls == 3     \* SpecOrder
MaxRejectCalls == 3    \* SpecReject
MaxCountCalls == 3     \* SpecCount
MaxBufferCalls == 3    \* SpecBuffers
MaxRangeCalls == 3     \* SpecRange
MaxReleaseCalls == 4   \* SpecRelease
MaxLockCalls == 3      \* SpecLock
MaxHashCalls == 3      \* SpecHash
MaxLayoutCalls == 3    \* SpecLayout
MaxStencilCalls == 4   \* SpecStencil

-----------------------------------------------------------------------------
(* Fixed-width arithmetic                                                  *)

Pow2(n) == 2^n

\* a < b for two unsigned values held as 32-bit patterns
ULess(a, b) ==
    IF (a < 0) = (b < 0) THEN a < b ELSE b < 0

\* bitwise OR of two 32-bit patterns, a negative integer being the
\* two's-complement pattern of an unsigned value of 2^31 or more
RECURSIVE BitOr(_, _)
BitOr(a, b) ==
    IF a = 0 THEN b
    ELSE IF b = 0 THEN a
    ELSE IF a = 0 - 1 \/ b = 0 - 1 THEN 0 - 1
    ELSE (IF a % 2 = 1 \/ b % 2 = 1 THEN 1 ELSE 0) + 2 * BitOr(a \div 2, b \div 2)

\* (int)x for a quotient n / d, d > 0: C++ truncates toward zero
TruncDiv(n, d) ==
    IF n >= 0 THEN n \div d ELSE -((-n) \div d)

\* the 32-bit pattern hi13 * 2^19 + lo19 as a signed integer
Pack19(hi13, lo19) ==
    (IF hi13 >= 4096 THEN hi13 - 8192 ELSE hi13) * Pow2(19) + lo19

\* 64-bit value as four 16-bit lanes
Zero64 == <<0, 0, 0, 0>>
Or64(a, b) == [k \in 1..4 |-> BitOr(a[k], b[k])]
\* a << (16 * n), bits shifted past bit 63 are lost
Shl16Lanes(a, n) == [k \in 1..4 |-> IF k - n >= 1 THEN a[k - n] ELSE 0]

-----------------------------------------------------------------------------
(* The objects the caller owns.  Their attributes are what the caller gave *)
(* them at creation; the backend only reads them.                          *)

VertexShaders == {"vsA", "vsB", "vsBad"}
PixelShaders == {"psA", "psB", "psBad"}
Shaders == VertexShaders \cup PixelShaders

\* ShaderVariation::Create succeeds for these (the others do not compile)
Compiles(sh) == sh \notin {"vsBad", "psBad"}

VertexBufferObjs == {"vbA", "vbB", "vbI", "vbC", "vbD"}
IndexBufferObjs == {"ibA"}

Textures == {"texA", "texB", "texC", "texM", "texD16", "texD24"}
Surfaces == {"rsA", "rsB", "rsM", "rsD16", "rsD24"}

TEXTURE_DYNAMIC == 1
TEXTURE_RENDERTARGET == 2
TEXTURE_DEPTHSTENCIL == 3

\* Texture::GetUsage
TextureUsage(t) ==
    CASE t \in {"texA", "texB", "texM"} -> TEXTURE_RENDERTARGET
      [] t \in {"texD16", "texD24"} -> TEXTURE_DEPTHSTENCIL
      [] OTHER -> TEXTURE_DYNAMIC

\* Texture2D::GetRenderSurface
RenderSurfaceOf(t) ==
    CASE t = "texA" -> "rsA"
      [] t = "texB" -> "rsB"
      [] t = "texM" -> "rsM"
      [] t = "texD16" -> "rsD16"
      [] t = "texD24" -> "rsD24"
      [] OTHER -> NULL

\* RenderSurface::GetParentTexture
ParentTexture(rs) == CHOOSE t \in Textures : RenderSurfaceOf(t) = rs

\* RenderSurface::GetUsage
SurfaceUsage(rs) == TextureUsage(ParentTexture(rs))

\* Texture::GetBackupTexture
BackupTexture(t) == IF t = "texB" THEN "texC" ELSE NULL

\* Texture::GetMultiSample, GetAutoResolve, GetLevels
MultiSample(t) == IF t = "texM" THEN 4 ELSE 1
AutoResolve(t) == t = "texM"
Levels(t) == IF t = "texB" THEN 3 ELSE 1

\* the shadow-map format with 16 depth bits (DXGI_FORMAT_R16_TYPELESS)
IsR16Typeless(t) == t = "texD16"

\* RenderSurface::GetWidth, GetHeight
SurfaceWidth(rs) == IF rs \in {"rsB", "rsD24"} THEN 2 ELSE 4
SurfaceHeight(rs) == IF rs \in {"rsB", "rsD24"} THEN 2 ELSE 4

\* Graphics::width_ and height_: the backbuffer has the size of rsA
BackbufferWidth == SurfaceWidth("rsA")
BackbufferHeight == SurfaceHeight("rsA")

\* views are named after what they view
ShaderResourceViewOf(t) == t
SamplerOf(t) == t
RenderTargetViewOf(rs) == rs
\* the backend never creates the read-only depth view
ReadOnlyViewOf(rs) == NULL
DefaultRenderTargetView == "backbufferRTV"
DefaultDepthStencilView == "backbufferDSV"

\* VertexBuffer::GetElements()[0].perInstance_, GetVertexSize
HasInstanceData(vb) == vb = "vbI"
VertexSize(vb) ==
    CASE vb = "vbA" -> 24 [] vb = "vbB" -> 32 [] vb \in {"vbC", "vbD"} -> 100 [] OTHER -> 48

\* a vertex element: type and semantic are the numbers of VertexElementType
\* (VECTOR2 2, VECTOR3 3, VECTOR4 4, UBYTE4 5) and VertexElementSemantic
\* (POSITION 0, NORMAL 1, BINORMAL 2, TANGENT 3, TEXCOORD 4, COLOR 5,
\* BLENDWEIGHTS 6, BLENDINDICES 7)
El(vb, type, semantic, index, offset) ==
    [type_ |-> type, semantic_ |-> semantic, index_ |-> index, offset_ |-> offset,
     perInstance_ |-> vb = "vbI"]

\* VertexBuffer::GetElements.  vbA holds position and normal, vbB adds a
\* texture coordinate, vbI is an instancing stream, vbC and vbD are skinned
\* vertices that differ in the index of their texture coordinate
Elements(vb) ==
    CASE vb = "vbA" -> <<El(vb, 3, 0, 0, 0), El(vb, 3, 1, 0, 12)>>
      [] vb = "vbB" -> <<El(vb, 3, 0, 0, 0), El(vb, 3, 1, 0, 12), El(vb, 2, 4, 0, 24)>>
      [] vb = "vbI" -> <<El(vb, 4, 4, 4, 0), El(vb, 4, 4, 5, 16), El(vb, 4, 4, 6, 32)>>
      [] OTHER -> <<El(vb, 3, 0, 0, 0), El(vb, 3, 1, 0, 12), El(vb, 4, 5, 0, 24),
                    El(vb, 4, 3, 0, 40), El(vb, 3, 4, IF vb = "vbC" THEN 0 ELSE 1, 56),
                    El(vb, 4, 6, 0, 68), El(vb, 5, 7, 0, 84), El(vb, 3, 2, 0, 88)>>

\* VertexBuffer::UpdateOffsets: the hash of the first n elements, each
\* element taking the hash to hash * 64 + (type + 1) * (semantic + 1) + index
\* in 64 bits, held in four lanes
RECURSIVE ElementHashOf(_, _)
ElementHashOf(elements, n) ==
    LET Carried(a, b, c, d) ==
            <<a % 65536,
              (b + a \div 65536) % 65536,
              (c + (b + a \div 65536) \div 65536) % 65536,
              (d + (c + (b + a \div 65536) \div 65536) \div 65536) % 65536>>
        Shl6Add(h, e) == Carried(h[1] * 64 + e, h[2] * 64, h[3] * 64, h[4] * 64)
    IN  IF n = 0 THEN Zero64
        ELSE Shl6Add(ElementHashOf(elements, n - 1),
                     (elements[n].type_ + 1) * (elements[n].semantic_ + 1)
                        + elements[n].index_)

\* VertexBuffer::elementHash_ as 64-bit lanes
ElementHash(vb) == ElementHashOf(Elements(vb), Len(Elements(vb)))

\* VertexBuffer::GetBufferHash(streamIndex): elementHash_ << (streamIndex * 16)
GetBufferHash(vb, i) == Shl16Lanes(ElementHash(vb), i)

-----------------------------------------------------------------------------
(* VertexBuffer and IndexBuffer objects.  Both classes hold the same       *)
(* fields and their SetData, SetDataRange, Lock, Unlock, MapBuffer and     *)
(* UnmapBuffer are the same code over vertexCount_ / indexCount_ and       *)
(* vertexSize_ / indexSize_, called elementCount and elementSize here.     *)
(* shadowData_ and the device buffer hold one value per element, 0 when    *)
(* never written.  stray tells that a copy or a device update went         *)
(* outside the buffer.                                                     *)

MinInt == (0 - 2147483647) - 1

\* a + b of two 32-bit unsigned values
Add32(a, b) ==
    IF a >= 0 /\ b >= 0
    THEN IF a > 2147483647 - b THEN (a + MinInt) + (b + MinInt) ELSE a + b
    ELSE IF a < 0 /\ b < 0
    THEN IF a < MinInt - b THEN (a - MinInt) + (b - MinInt) ELSE a + b
    ELSE a + b

\* a * k of a 32-bit unsigned value and a small one
RECURSIVE Mul32(_, _)
Mul32(a, k) == IF k = 0 THEN 0 ELSE Add32(Mul32(a, k - 1), a)

\* the buffer objects: vbA is shadowed and static, vbB has neither shadow
\* nor dynamic usage, ibA is dynamic without shadow
BufferObjects == {"vbA", "vbB", "ibA"}
ElementCount == 4
ElementSize(b) == IF b = "ibA" THEN 2 ELSE VertexSize(b)
Shadowed(b) == b = "vbA"
Dynamic(b) == b = "ibA"

InitBuffer(b) ==
    [lockState_ |-> "LOCK_NONE", lockStart_ |-> 0, lockCount_ |-> 0,
     lockScratchData_ |-> FALSE,
     shadowData_ |-> [e \in 1..(IF Shadowed(b) THEN ElementCount ELSE 0) |-> 0],
     deviceData |-> [e \in 1..ElementCount |-> 0],
     stray |-> FALSE]

\* memcpy(memory + offset, data, bytes) and UpdateBuffer(offset, bytes,
\* data), offset and bytes being 32-bit unsigned products: the elements
\* inside the memory are written, anything else is a write outside
WriteBytes(memory, b, offset, bytes, data) ==
    IF /\ offset >= 0 /\ bytes >= 0
       /\ bytes <= Len(memory) * ElementSize(b)
       /\ offset <= Len(memory) * ElementSize(b) - bytes
    THEN [e \in 1..Len(memory) |->
            IF /\ (e - 1) * ElementSize(b) >= offset
               /\ e * ElementSize(b) <= offset + bytes
            THEN data ELSE memory[e]]
    ELSE memory

Strays(memory, b, offset, bytes) ==
    ~(/\ offset >= 0 /\ bytes >= 0
      /\ bytes <= Len(memory) * ElementSize(b)
      /\ offset <= Len(memory) * ElementSize(b) - bytes)

\* MapBuffer; mapped tells whether the device hands out a pointer
MapBuffer(o, mapped) ==
    IF mapped THEN [o EXCEPT !.lockState_ = "LOCK_HARDWARE"] ELSE o

UnmapBuffer(o) ==
    IF o.lockState_ = "LOCK_HARDWARE" THEN [o EXCEPT !.lockState_ = "LOCK_NONE"] ELSE o

\* the part of SetData and SetDataRange that follows the copy to the
\* shadow: hwData is the start of the mapping whatever start is
UpdateDevice(o, b, start, count, data, mapped) ==
    IF Dynamic(b)
    THEN IF mapped
         THEN UnmapBuffer([MapBuffer(o, mapped) EXCEPT
                !.deviceData = WriteBytes(@, b, 0, Mul32(count, ElementSize(b)), data),
                !.stray = @ \/ Strays(o.deviceData, b, 0, Mul32(count, ElementSize(b)))])
         ELSE o
    ELSE [o EXCEPT
            !.deviceData = WriteBytes(@, b, Mul32(start, ElementSize(b)),
                                      Mul32(count, ElementSize(b)), data),
            !.stray = @ \/ Strays(o.deviceData, b, Mul32(start, ElementSize(b)),
                                  Mul32(count, ElementSize(b)))]

\* SetData(data) with data not null; inPlace tells that data is shadowData_
SetData(o, b, data, inPlace, mapped) ==
    UpdateDevice(IF Shadowed(b) /\ ~inPlace
                 THEN [o EXCEPT !.shadowData_ =
                            WriteBytes(@, b, 0, ElementCount * ElementSize(b), data)]
                 ELSE o,
                 b, 0, ElementCount, data, mapped)

\* SetDataRange(data, start, count, discard) with data not null; inPlace
\* tells that data is shadowData_ + start * elementSize
SetDataRange(o, b, data, start, count, inPlace, mapped) ==
    IF start = 0 /\ count = ElementCount THEN SetData(o, b, data, inPlace, mapped)
    ELSE IF ULess(ElementCount, Add32(start, count)) THEN o
    ELSE IF count = 0 THEN o
    ELSE UpdateDevice(
            IF Shadowed(b) /\ ~inPlace
            THEN [o EXCEPT
                    !.shadowData_ = WriteBytes(@, b, Mul32(start, ElementSize(b)),
                                               Mul32(count, ElementSize(b)), data),
                    !.stray = @ \/ Strays(o.shadowData_, b, Mul32(start, ElementSize(b)),
                                          Mul32(count, ElementSize(b)))]
            ELSE o,
            b, start, count, data, mapped)

\* what SetDataRange returns.  VertexBuffer::SetData ends without a return
\* statement where IndexBuffer::SetData returns true: returned is the value
\* its caller then reads
SetDataRangeResult(b, start, count, mapped, returned) ==
    IF start = 0 /\ count = ElementCount
    THEN IF Dynamic(b) /\ ~mapped THEN FALSE
         ELSE IF b = "ibA" THEN TRUE
         ELSE returned
    ELSE IF ULess(ElementCount, Add32(start, count)) THEN FALSE
    ELSE IF count = 0 THEN TRUE
    ELSE ~Dynamic(b) \/ mapped

\* Lock(start, count, discard)
Lock(o, b, start, count, mapped) ==
    IF o.lockState_ # "LOCK_NONE" THEN o
    ELSE IF ULess(ElementCount, Add32(start, count)) THEN o
    ELSE IF count = 0 THEN o
    ELSE IF ~Shadowed(b) /\ Dynamic(b)
    THEN MapBuffer([o EXCEPT !.lockStart_ = start, !.lockCount_ = count], mapped)
    ELSE IF Shadowed(b)
    THEN [o EXCEPT !.lockStart_ = start, !.lockCount_ = count, !.lockState_ = "LOCK_SHADOW"]
    ELSE [o EXCEPT !.lockStart_ = start, !.lockCount_ = count,
                   !.lockState_ = "LOCK_SCRATCH", !.lockScratchData_ = TRUE]

\* whether Lock returns a pointer
LockResult(o, b, start, count, mapped) ==
    /\ o.lockState_ = "LOCK_NONE"
    /\ ~ULess(ElementCount, Add32(start, count))
    /\ count # 0
    /\ (~Shadowed(b) /\ Dynamic(b)) => mapped

\* Unlock; data is what the locked range was filled with
Unlock(o, b, data, mapped) ==
    CASE o.lockState_ = "LOCK_HARDWARE" -> UnmapBuffer(o)
      [] o.lockState_ = "LOCK_SHADOW" ->
            [SetDataRange([o EXCEPT !.shadowData_ =
                                WriteBytes(@, b, Mul32(o.lockStart_, ElementSize(b)),
                                           Mul32(o.lockCount_, ElementSize(b)), data)],
                          b, data, o.lockStart_, o.lockCount_, TRUE, mapped)
                EXCEPT !.lockState_ = "LOCK_NONE"]
      [] o.lockState_ = "LOCK_SCRATCH" ->
            [SetDataRange(o, b, data, o.lockStart_, o.lockCount_, FALSE, mapped)
                EXCEPT !.lockScratchData_ = FALSE, !.lockState_ = "LOCK_NONE"]
      [] OTHER -> o

-----------------------------------------------------------------------------
(* What shader reflection reports for each shader variation                *)

\* texture unit of every texture variable of the shader, in the order the
\* resource binding enumerates them (GetVariableByIndex)
ShaderTextureUnits(sh) ==
    CASE sh = "psA" -> <<0, 2, 3, 5, 6>>
      [] sh = "psB" -> <<0, 1>>
      [] OTHER -> <<>>

\* ShaderVariation::constantBufferSizes_ as Create fills it
ConstantBufferSizes(sh) ==
    [i \in ParameterGroups |->
        CASE sh \in {"vsA", "vsB"} /\ i = 1 -> 32
          [] sh = "psA" /\ i = 4 -> 32
          [] sh = "psB" /\ i = 4 -> 16
          [] OTHER -> 0]

\* ShaderVariation::parameters_ as Create fills it: name, parameter group,
\* byte offset
ShaderParameters(sh) ==
    CASE sh \in {"vsA", "vsB"} -> {[name |-> "ViewProj", group |-> 1, offset |-> 0]}
      [] sh = "psA" -> {[name |-> "MatDiffColor", group |-> 4, offset |-> 0],
                        [name |-> "MatSpecColor", group |-> 4, offset |-> 16]}
      [] sh = "psB" -> {[name |-> "MatDiffColor", group |-> 4, offset |-> 0]}
      [] OTHER -> {}

ParameterNames == {"ViewProj", "MatDiffColor", "MatSpecColor", "ElapsedTime"}
ParameterValues == 1..2

ShaderTypeOf(sh) == IF sh \in VertexShaders THEN VS ELSE PS

-----------------------------------------------------------------------------
(* Small helpers on the state record                                       *)

Min(a, b) == IF a < b THEN a ELSE b
Max(a, b) == IF a > b THEN a ELSE b
Clamp(v, lo, hi) == IF v < lo THEN lo ELSE IF v > hi THEN hi ELSE v

IntRect(l, t, r, b) == [left_ |-> l, top_ |-> t, right_ |-> r, bottom_ |-> b]

\* the device call is appended to the calls the running method has made
Log(s, entry) == [s EXCEPT !.log = Append(@, entry)]

\* position of the first device call named op, 0 when there is none
FirstCall(s, op) ==
    IF \E i \in 1..Len(s.log) : s.log[i].op = op
    THEN CHOOSE i \in 1..Len(s.log) :
            s.log[i].op = op /\ \A j \in 1..(i - 1) : s.log[j].op # op
    ELSE 0

\* position of the last device call named op, 0 when there is none
LastCall(s, op) ==
    IF \E i \in 1..Len(s.log) : s.log[i].op = op
    THEN CHOOSE i \in 1..Len(s.log) :
            s.log[i].op = op /\ \A j \in (i + 1)..Len(s.log) : s.log[j].op # op
    ELSE 0

-----------------------------------------------------------------------------
(* State after construction: Graphics::Graphics, GraphicsImpl's member     *)
(* initialisers and Graphics::ResetCachedState                             *)

InitState ==
    [ \* Graphics
      vertexBuffers_ |-> [i \in Streams |-> NULL],
      indexBuffer_ |-> NULL,
      textures_ |-> [i \in TextureUnits |-> NULL],
      renderTargets_ |-> [i \in RenderTargetSlots |-> NULL],
      depthStencil_ |-> NULL,
      viewport_ |-> IntRect(0, 0, BackbufferWidth, BackbufferHeight),
      vertexDeclarationHash_ |-> Zero64,
      vertexShader_ |-> NULL,
      pixelShader_ |-> NULL,
      blendMode_ |-> BLEND_REPLACE,
      alphaToCoverage_ |-> FALSE,
      colorWrite_ |-> TRUE,
      cullMode_ |-> CULL_CCW,
      constantDepthBias_ |-> 0,
      slopeScaledDepthBias_ |-> 0,
      depthTestMode_ |-> CMP_LESSEQUAL,
      depthWrite_ |-> TRUE,
      fillMode_ |-> FILL_SOLID,
      lineAntiAlias_ |-> FALSE,
      scissorTest_ |-> FALSE,
      scissorRect_ |-> IntRect(0, 0, 0, 0),
      stencilTest_ |-> FALSE,
      stencilTestMode_ |-> CMP_ALWAYS,
      stencilPass_ |-> OP_KEEP,
      stencilFail_ |-> OP_KEEP,
      stencilZFail_ |-> OP_KEEP,
      stencilRef_ |-> 0,
      stencilCompareMask_ |-> M_MAX_UNSIGNED,
      stencilWriteMask_ |-> M_MAX_UNSIGNED,
      numPrimitives_ |-> 0,
      numBatches_ |-> 0,
      \* GraphicsImpl
      implVertexBuffers_ |-> [i \in Streams |-> NULL],
      vertexSizes_ |-> [i \in Streams |-> 0],
      vertexOffsets_ |-> [i \in Streams |-> 0],
      shaderResourceViews_ |-> [i \in TextureUnits |-> NULL],
      samplers_ |-> [i \in TextureUnits |-> NULL],
      renderTargetViews_ |-> [i \in RenderTargetSlots |-> NULL],
      depthStencilView_ |-> NULL,
      shaderProgram_ |-> 0,
      shaderPrograms_ |-> <<>>,
      renderTargetsDirty_ |-> TRUE,
      texturesDirty_ |-> TRUE,
      vertexDeclarationDirty_ |-> TRUE,
      vertexShaderDirty_ |-> FALSE,
      pixelShaderDirty_ |-> FALSE,
      blendStateDirty_ |-> TRUE,
      depthStateDirty_ |-> TRUE,
      rasterizerStateDirty_ |-> TRUE,
      scissorRectDirty_ |-> TRUE,
      stencilRefDirty_ |-> TRUE,
      primitiveTypeDirty_ |-> FALSE,
      primitiveType_ |-> TRIANGLE_LIST,
      blendStateHash_ |-> M_MAX_UNSIGNED,
      depthStateHash_ |-> M_MAX_UNSIGNED,
      rasterizerStateHash_ |-> M_MAX_UNSIGNED,
      firstDirtyTexture_ |-> M_MAX_UNSIGNED,
      lastDirtyTexture_ |-> M_MAX_UNSIGNED,
      firstDirtyVB_ |-> M_MAX_UNSIGNED,
      lastDirtyVB_ |-> M_MAX_UNSIGNED,
      pipelineStates_ |-> {},
      currentPipelineState_ |-> 0,
      currentShaderResourceBinding_ |-> 0,
      currentTextureMap_ |-> 0,
      allConstantBuffers_ |-> {},
      dirtyConstantBuffers_ |-> <<>>,
      \* GPU objects
      shaderObject_ |-> [sh \in Shaders |-> FALSE],
      compilerOutput_ |-> [sh \in Shaders |-> FALSE],
      reflected_ |-> [sh \in Shaders |-> FALSE],
      bufferObjects |-> [b \in BufferObjects |-> InitBuffer(b)],
      parametersDirty_ |-> [t \in Textures |-> TRUE],
      sampler_ |-> [t \in Textures |-> FALSE],
      resolveDirty_ |-> [t \in Textures |-> FALSE],
      surfaceResolveDirty_ |-> [rs \in Surfaces |-> FALSE],
      levelsDirty_ |-> [t \in Textures |-> FALSE],
      constantBuffers |-> <<>>,
      \* device
      pipelines |-> <<>>,
      deviceVertexBuffers |-> [i \in Streams |-> [buffer |-> NULL, offset |-> 0]],
      log |-> <<>> ]

-----------------------------------------------------------------------------
(* Value-state setters.  Each returns the state the method leaves.         *)

SetBlendMode(s, mode, alphaToCoverage) ==
    IF mode # s.blendMode_ \/ alphaToCoverage # s.alphaToCoverage_
    THEN [s EXCEPT !.blendMode_ = mode,
                   !.alphaToCoverage_ = alphaToCoverage,
                   !.blendStateDirty_ = TRUE]
    ELSE s

SetColorWrite(s, enable) ==
    IF enable # s.colorWrite_
    THEN [s EXCEPT !.colorWrite_ = enable, !.blendStateDirty_ = TRUE]
    ELSE s

\* a SetCullMode that does not compare with the recorded mode
SetCullModeUnconditional(s, mode) ==
    [s EXCEPT !.cullMode_ = mode, !.rasterizerStateDirty_ = TRUE]

SetCullMode(s, mode) ==
    IF mode # s.cullMode_
    THEN [s EXCEPT !.cullMode_ = mode, !.rasterizerStateDirty_ = TRUE]
    ELSE s

SetDepthBias(s, constantBias, slopeScaledBias) ==
    IF constantBias # s.constantDepthBias_ \/ slopeScaledBias # s.slopeScaledDepthBias_
    THEN [s EXCEPT !.constantDepthBias_ = constantBias,
                   !.slopeScaledDepthBias_ = slopeScaledBias,
                   !.rasterizerStateDirty_ = TRUE]
    ELSE s

SetDepthTest(s, mode) ==
    IF mode # s.depthTestMode_
    THEN [s EXCEPT !.depthTestMode_ = mode, !.depthStateDirty_ = TRUE]
    ELSE s

SetDepthWrite(s, enable) ==
    IF enable # s.depthWrite_
    THEN [s EXCEPT !.depthWrite_ = enable,
                   !.depthStateDirty_ = TRUE,
                   !.renderTargetsDirty_ = TRUE]
    ELSE s

SetFillMode(s, mode) ==
    IF mode # s.fillMode_
    THEN [s EXCEPT !.fillMode_ = mode, !.rasterizerStateDirty_ = TRUE]
    ELSE s

SetLineAntiAlias(s, enable) ==
    IF enable # s.lineAntiAlias_
    THEN [s EXCEPT !.lineAntiAlias_ = enable, !.rasterizerStateDirty_ = TRUE]
    ELSE s

\* one `if (value != field_) { field_ = value; depthStateDirty_ = true; }`
SetStencilField(s, field, value) ==
    IF value # s[field]
    THEN [s EXCEPT ![field] = value, !.depthStateDirty_ = TRUE]
    ELSE s

SetStencilTest(s, enable, mode, pass, fail, zFail, stencilRef, compareMask, writeMask) ==
    LET \* lines 1646-1651
        Reference(s7) ==
            IF stencilRef # s7.stencilRef_
            THEN [s7 EXCEPT !.stencilRef_ = stencilRef,
                            !.stencilRefDirty_ = TRUE,
                            !.depthStateDirty_ = TRUE]
            ELSE s7
        \* lines 1614-1652, s1 the state once the enable flag is recorded
        Enabled(s1) ==
            IF enable
            THEN Reference(
                    SetStencilField(SetStencilField(SetStencilField(
                    SetStencilField(SetStencilField(SetStencilField(s1,
                        "stencilTestMode_", mode),
                        "stencilPass_", pass),
                        "stencilFail_", fail),
                        "stencilZFail_", zFail),
                        "stencilCompareMask_", compareMask),
                        "stencilWriteMask_", writeMask))
            ELSE s1
    IN  Enabled(SetStencilField(s, "stencilTest_", enable))

-----------------------------------------------------------------------------
(* Textures                                                                *)

GetParametersDirty(s, t) == s.parametersDirty_[t] \/ ~s.sampler_[t]

\* every texture of the model has its GPU object, and the device creates
\* the sampler
UpdateParameters(s, t) ==
    IF ~s.parametersDirty_[t] /\ s.sampler_[t]
    THEN s
    ELSE [Log(s, [op |-> "CreateSampler", texture |-> t])
            EXCEPT !.sampler_[t] = TRUE, !.parametersDirty_[t] = FALSE]

RegenerateLevels(s, t) ==
    [Log(s, [op |-> "GenerateMips", texture |-> t]) EXCEPT !.levelsDirty_[t] = FALSE]

\* a resolve that leaves the texture and the surface resolve-dirty
ResolveToTextureKeepingDirty(s, t) ==
    IF RenderSurfaceOf(t) = NULL
    THEN s
    ELSE Log(s, [op |-> "ResolveTextureSubresource", texture |-> t])

ResolveToTexture(s, t) ==
    IF RenderSurfaceOf(t) = NULL
    THEN s
    ELSE [Log(s, [op |-> "ResolveTextureSubresource", texture |-> t])
            EXCEPT !.resolveDirty_[t] = FALSE,
                   !.surfaceResolveDirty_[RenderSurfaceOf(t)] = FALSE]

SetTextureParametersDirty(s) ==
    [s EXCEPT !.parametersDirty_ = [t \in Textures |-> TRUE]]

\* SetTexture that wraps its index into the texture units instead of
\* returning when the index is out of range
SetTextureWrapped(s, index, texture) ==
    [s EXCEPT !.textures_[index % MAX_TEXTURE_UNITS] = texture,
              !.texturesDirty_ = TRUE]

\* index is unsigned
SetTexture(s, index, texture) ==
    IF ~ULess(index, MAX_TEXTURE_UNITS) THEN s
    ELSE
    LET redirected == /\ texture # NULL
                      /\ s.renderTargets_[0] # NULL
                      /\ ParentTexture(s.renderTargets_[0]) = texture
        tex == IF redirected THEN BackupTexture(texture) ELSE texture
        \* lines 1278-1294, s3 the state the lines above leave
        Assign(s3) ==
            IF tex # s3.textures_[index]
            THEN [s3 EXCEPT
                    !.firstDirtyTexture_ =
                        IF s3.firstDirtyTexture_ = M_MAX_UNSIGNED THEN index
                        ELSE IF ULess(index, s3.firstDirtyTexture_) THEN index
                        ELSE s3.firstDirtyTexture_,
                    !.lastDirtyTexture_ =
                        IF s3.firstDirtyTexture_ = M_MAX_UNSIGNED THEN index
                        ELSE IF ULess(s3.lastDirtyTexture_, index) THEN index
                        ELSE s3.lastDirtyTexture_,
                    !.textures_[index] = tex,
                    !.shaderResourceViews_[index] =
                        IF tex # NULL THEN ShaderResourceViewOf(tex) ELSE NULL,
                    !.samplers_[index] =
                        IF tex # NULL THEN SamplerOf(tex) ELSE NULL,
                    !.texturesDirty_ = TRUE]
            ELSE s3
        \* lines 1272-1276
        Parameters(s2) ==
            Assign(IF tex # NULL /\ GetParametersDirty(s2, tex)
                   THEN [UpdateParameters(s2, tex) EXCEPT !.textures_[index] = NULL]
                   ELSE s2)
        \* lines 1268-1269
        Regenerate(s1) ==
            Parameters(IF tex # NULL /\ s1.levelsDirty_[tex]
                       THEN RegenerateLevels(s1, tex) ELSE s1)
    IN  Regenerate(IF /\ texture # NULL /\ ~redirected
                      /\ MultiSample(texture) > 1 /\ AutoResolve(texture)
                      /\ s.resolveDirty_[texture]
                   THEN ResolveToTexture(s, texture) ELSE s)

\* Texture2D::Release, lines 58-62: the texture units from unit i on
RECURSIVE ReleaseTexture(_, _, _)
ReleaseTexture(s, texture, i) ==
    IF i >= MAX_TEXTURE_UNITS THEN s
    ELSE ReleaseTexture(IF s.textures_[i] = texture THEN SetTexture(s, i, NULL) ELSE s,
                        texture, i + 1)

-----------------------------------------------------------------------------
(* Render targets, depth-stencil, viewport and scissor                     *)

\* the loop of SetRenderTarget over the texture units, from unit i on
RECURSIVE ReplaceBoundParent(_, _, _)
ReplaceBoundParent(s, parentTexture, i) ==
    IF i >= MAX_TEXTURE_UNITS THEN s
    ELSE ReplaceBoundParent(
            IF s.textures_[i] = parentTexture
            THEN SetTexture(s, i, BackupTexture(s.textures_[i]))
            ELSE s,
            parentTexture, i + 1)

SetRenderTarget(s, index, renderTarget) ==
    IF ~ULess(index, MAX_RENDERTARGETS) THEN s
    ELSE IF renderTarget = s.renderTargets_[index] THEN s
    ELSE
    LET parentTexture == ParentTexture(renderTarget)
        \* lines 1386-1387
        MarkLevels(s3) ==
            IF Levels(parentTexture) > 1
            THEN [s3 EXCEPT !.levelsDirty_[parentTexture] = TRUE]
            ELSE s3
        \* lines 1379-1383
        MarkResolve(s2) ==
            MarkLevels(IF MultiSample(parentTexture) > 1 /\ AutoResolve(parentTexture)
                       THEN [s2 EXCEPT !.resolveDirty_[parentTexture] = TRUE,
                                       !.surfaceResolveDirty_[renderTarget] = TRUE]
                       ELSE s2)
        \* lines 1367-1388, s1 the state once the render target is recorded
        Rebind(s1) ==
            IF renderTarget # NULL
            THEN MarkResolve(ReplaceBoundParent(s1, parentTexture, 0))
            ELSE s1
    IN  Rebind([s EXCEPT !.renderTargets_[index] = renderTarget,
                         !.renderTargetsDirty_ = TRUE])

\* SetRenderTarget(unsigned, Texture2D*)
SetRenderTargetTexture(s, index, texture) ==
    SetRenderTarget(s, index, IF texture # NULL THEN RenderSurfaceOf(texture) ELSE NULL)

\* a SetDepthStencil that does not compare with the bound depth-stencil
SetDepthStencilUnconditional(s, depthStencil) ==
    [s EXCEPT !.depthStencil_ = depthStencil, !.renderTargetsDirty_ = TRUE]

\* SetDepthStencil(RenderSurface*)
SetDepthStencil(s, depthStencil) ==
    IF depthStencil # s.depthStencil_
    THEN [s EXCEPT !.depthStencil_ = depthStencil, !.renderTargetsDirty_ = TRUE]
    ELSE s

\* SetDepthStencil(Texture2D*)
SetDepthStencilTexture(s, texture) ==
    [SetDepthStencil(s, IF texture # NULL THEN RenderSurfaceOf(texture) ELSE NULL)
        EXCEPT !.rasterizerStateDirty_ = TRUE]

\* <<width, height>>
GetRenderTargetDimensions(s) ==
    IF s.renderTargets_[0] # NULL
    THEN <<SurfaceWidth(s.renderTargets_[0]), SurfaceHeight(s.renderTargets_[0])>>
    ELSE IF s.depthStencil_ # NULL
    THEN <<SurfaceWidth(s.depthStencil_), SurfaceHeight(s.depthStencil_)>>
    ELSE <<BackbufferWidth, BackbufferHeight>>

\* what both SetScissorTest overloads do once intRect is clamped
ApplyScissor(s, enable, intRect) ==
    LET right == IF intRect.right_ = intRect.left_ THEN intRect.right_ + 1 ELSE intRect.right_
        bottom == IF intRect.bottom_ = intRect.top_ THEN intRect.bottom_ + 1 ELSE intRect.bottom_
        r == [intRect EXCEPT !.right_ = right, !.bottom_ = bottom]
        en == enable /\ ~(r.right_ < r.left_ \/ r.bottom_ < r.top_)
        Enable(s1) ==
            IF en # s1.scissorTest_
            THEN [s1 EXCEPT !.scissorTest_ = en, !.rasterizerStateDirty_ = TRUE]
            ELSE s1
    IN  Enable(IF en /\ r # s.scissorRect_
               THEN [s EXCEPT !.scissorRect_ = r, !.scissorRectDirty_ = TRUE]
               ELSE s)

\* SetScissorTest(bool, const IntRect&)
SetScissorTestInt(s, enable, rect) ==
    LET rtSize == GetRenderTargetDimensions(s)
        intRect == IntRect(Clamp(rect.left_ + s.viewport_.left_, 0, rtSize[1] - 1),
                           Clamp(rect.top_ + s.viewport_.top_, 0, rtSize[2] - 1),
                           Clamp(rect.right_ + s.viewport_.left_, 0, rtSize[1]),
                           Clamp(rect.bottom_ + s.viewport_.top_, 0, rtSize[2]))
    IN  ApplyScissor(s, enable, intRect)

\* a Rect, its coordinates in halves
Rect(minX, minY, maxX, maxY) ==
    [min_x_ |-> minX, min_y_ |-> minY, max_x_ |-> maxX, max_y_ |-> maxY]

\* Rect::FULL, (-1, -1) to (1, 1)
RectFull == Rect(0 - 2, 0 - 2, 2, 2)

\* SetScissorTest(bool, const Rect&, bool); with the coordinates in halves
\* (int)((x + 1.0f) * 0.5f * size) is TruncDiv((x2 + 2) * size, 4)
SetScissorTest(s, enable, rect, borderInclusive) ==
    LET full == rect.min_x_ <= 0 /\ rect.min_y_ <= 0 /\ rect.max_x_ >= 2 /\ rect.max_y_ >= 2
        en == enable /\ ~full
        rtSize == GetRenderTargetDimensions(s)
        viewW == s.viewport_.right_ - s.viewport_.left_
        viewH == s.viewport_.bottom_ - s.viewport_.top_
        expand == IF borderInclusive THEN 1 ELSE 0
        intRect == IntRect(
            Clamp(TruncDiv((rect.min_x_ + 2) * viewW, 4) + s.viewport_.left_, 0, rtSize[1] - 1),
            Clamp(TruncDiv((2 - rect.max_y_) * viewH, 4) + s.viewport_.top_, 0, rtSize[2] - 1),
            Clamp(TruncDiv((rect.max_x_ + 2) * viewW, 4) + s.viewport_.left_ + expand, 0, rtSize[1]),
            Clamp(TruncDiv((2 - rect.min_y_) * viewH, 4) + s.viewport_.top_ + expand, 0, rtSize[2]))
    IN  ApplyScissor(s, en, intRect)

SetViewport(s, rect) ==
    LET size == GetRenderTargetDimensions(s)
        right == IF rect.right_ <= rect.left_ THEN rect.left_ + 1 ELSE rect.right_
        bottom == IF rect.bottom_ <= rect.top_ THEN rect.top_ + 1 ELSE rect.bottom_
        rectCopy == IntRect(Clamp(rect.left_, 0, size[1]), Clamp(rect.top_, 0, size[2]),
                            Clamp(right, 0, size[1]), Clamp(bottom, 0, size[2]))
    IN  SetScissorTest([Log(s, [op |-> "SetViewports", rect |-> rectCopy])
                            EXCEPT !.viewport_ = rectCopy],
                       FALSE, RectFull, TRUE)

-----------------------------------------------------------------------------
(* Vertex and index buffers                                                *)

\* VertexBuffer::GetGPUObject: null once Release has let go of the device
\* buffer, which leaves no device data; the buffers whose contents are not
\* held are never released
GetGPUObject(s, buffer) ==
    IF buffer \in BufferObjects /\ s.bufferObjects[buffer].deviceData = <<>>
    THEN NULL ELSE buffer

\* a loop body that makes the changed stream the whole dirty range
SetVertexStreamNarrow(s, buffers, instanceOffset, i) ==
    LET buffer == IF i < Len(buffers) THEN buffers[i + 1] ELSE NULL
        offset == IF HasInstanceData(buffer) THEN instanceOffset * VertexSize(buffer) ELSE 0
        changed == IF buffer # NULL
                   THEN buffer # s.vertexBuffers_[i] \/ offset # s.vertexOffsets_[i]
                   ELSE s.vertexBuffers_[i] # NULL
        s1 == IF buffer # NULL
              THEN [s EXCEPT !.vertexBuffers_[i] = buffer,
                             !.implVertexBuffers_[i] = GetGPUObject(s, buffer),
                             !.vertexSizes_[i] = VertexSize(buffer),
                             !.vertexOffsets_[i] = offset]
              ELSE [s EXCEPT !.vertexBuffers_[i] = NULL,
                             !.implVertexBuffers_[i] = NULL,
                             !.vertexSizes_[i] = 0,
                             !.vertexOffsets_[i] = 0]
        first == i
        last == i
    IN  IF changed
        THEN [s1 EXCEPT !.vertexDeclarationDirty_ = TRUE,
                        !.firstDirtyVB_ = first,
                        !.lastDirtyVB_ = last]
        ELSE s

\* the body of the loop of SetVertexBuffers for stream i; streams are
\* numbered from 0, buffers is a sequence
SetVertexStream(s, buffers, instanceOffset, i) ==
    LET buffer == IF i < Len(buffers) THEN buffers[i + 1] ELSE NULL
        offset == IF HasInstanceData(buffer) THEN instanceOffset * VertexSize(buffer) ELSE 0
        changed == IF buffer # NULL
                   THEN buffer # s.vertexBuffers_[i] \/ offset # s.vertexOffsets_[i]
                   ELSE s.vertexBuffers_[i] # NULL
        s1 == IF buffer # NULL
              THEN [s EXCEPT !.vertexBuffers_[i] = buffer,
                             !.implVertexBuffers_[i] = GetGPUObject(s, buffer),
                             !.vertexSizes_[i] = VertexSize(buffer),
                             !.vertexOffsets_[i] = offset]
              ELSE [s EXCEPT !.vertexBuffers_[i] = NULL,
                             !.implVertexBuffers_[i] = NULL,
                             !.vertexSizes_[i] = 0,
                             !.vertexOffsets_[i] = 0]
        first == IF s.firstDirtyVB_ = M_MAX_UNSIGNED THEN i
                 ELSE IF ULess(i, s.firstDirtyVB_) THEN i ELSE s.firstDirtyVB_
        last == IF s.firstDirtyVB_ = M_MAX_UNSIGNED THEN i
                ELSE IF ULess(s.lastDirtyVB_, i) THEN i ELSE s.lastDirtyVB_
    IN  IF changed
        THEN [s1 EXCEPT !.vertexDeclarationDirty_ = TRUE,
                        !.firstDirtyVB_ = first,
                        !.lastDirtyVB_ = last]
        ELSE s

RECURSIVE SetVertexStreamsFrom(_, _, _, _)
SetVertexStreamsFrom(s, buffers, instanceOffset, i) ==
    IF i >= MAX_VERTEX_STREAMS THEN s
    ELSE SetVertexStreamsFrom(SetVertexStream(s, buffers, instanceOffset, i),
                              buffers, instanceOffset, i + 1)

\* SetVertexBuffers without the check of the number of buffers
SetVertexBuffersUnchecked(s, buffers, instanceOffset) ==
    SetVertexStreamsFrom(s, buffers, instanceOffset, 0)

SetVertexBuffers(s, buffers, instanceOffset) ==
    IF Len(buffers) > MAX_VERTEX_STREAMS THEN s
    ELSE SetVertexStreamsFrom(s, buffers, instanceOffset, 0)

\* what SetVertexBuffers returns
SetVertexBuffersResult(buffers) == ~(Len(buffers) > MAX_VERTEX_STREAMS)

\* Graphics::SetVertexBuffer: a list of the one buffer
SetVertexBuffer(s, buffer) == SetVertexBuffers(s, <<buffer>>, 0)

\* the loop of VertexBuffer::Release over the streams, from stream i on
RECURSIVE ReleaseFromStreams(_, _, _)
ReleaseFromStreams(s, b, i) ==
    IF i >= MAX_VERTEX_STREAMS THEN s
    ELSE ReleaseFromStreams(IF s.vertexBuffers_[i] = b THEN SetVertexBuffer(s, NULL) ELSE s,
                            b, i + 1)

\* VertexBuffer::Release: Unlock, the loop over the streams, and the device
\* buffer let go; data is what a locked range was filled with
ReleaseVertexBuffer(s, b, data, mapped) ==
    [ReleaseFromStreams([s EXCEPT !.bufferObjects[b] = Unlock(@, b, data, mapped)], b, 0)
        EXCEPT !.bufferObjects[b].deviceData = <<>>]

SetIndexBuffer(s, buffer) ==
    IF buffer # s.indexBuffer_
    THEN [Log(s, [op |-> "SetIndexBuffer", buffer |-> buffer]) EXCEPT !.indexBuffer_ = buffer]
    ELSE s

-----------------------------------------------------------------------------
(* Constant buffers.  A ConstantBuffer is its position in constantBuffers, *)
(* 0 is the null pointer.  shadowData_ and the device buffer are held in   *)
(* 16-byte cells, a memory being the function from the cells that are not  *)
(* zero to what they hold.                                                 *)

CellBytes == 16

\* memset(shadowData_, 0, size): every cell is zero
ZeroCells(size) == [c \in {} |-> 0]

\* memcpy of data, which is not zero, to one cell of a memory
WriteCell(memory, cell, data) ==
    [c \in DOMAIN memory \cup {cell} |-> IF c = cell THEN data ELSE memory[c]]

\* ConstantBuffer::SetSize on a buffer just constructed; created tells
\* whether the device's CreateBuffer returns a buffer
SetSize(size, created) ==
    IF size = 0
    THEN [size_ |-> 0, dirty_ |-> FALSE, object_ |-> FALSE,
          shadowData_ |-> <<>>, deviceData |-> <<>>]
    ELSE LET rounded == ((size + CellBytes - 1) \div CellBytes) * CellBytes
         IN  [size_ |-> rounded, dirty_ |-> FALSE, object_ |-> created,
              shadowData_ |-> ZeroCells(rounded),
              deviceData |-> IF created THEN ZeroCells(rounded) ELSE <<>>]

\* ConstantBuffer::SetParameter
SetParameter(buffer, offset, size, data) ==
    IF offset + size > buffer.size_ THEN buffer
    ELSE [buffer EXCEPT !.shadowData_ = WriteCell(@, (offset \div CellBytes) + 1, data),
                        !.dirty_ = TRUE]

\* ConstantBuffer::Apply; mapped tells whether MapBuffer returns memory
Apply(buffer, mapped) ==
    IF buffer.dirty_ /\ buffer.object_
    THEN [buffer EXCEPT !.deviceData = IF mapped THEN buffer.shadowData_ ELSE @,
                        !.dirty_ = FALSE]
    ELSE buffer

\* size << 4 of a 32-bit unsigned size: the upper four bits are shifted out
Shl4(size) ==
    IF size % Pow2(28) < Pow2(27)
    THEN (size % Pow2(28)) * 16
    ELSE ((size % Pow2(28)) - Pow2(28)) * 16

ConstantBufferKey(type, index, size) ==
    BitOr(BitOr(type, index * 2), Shl4(size))

\* the buffer GetOrCreateConstantBuffer returns
ConstantBufferFor(s, type, index, size) ==
    LET key == ConstantBufferKey(type, index, size)
    IN  IF \E e \in s.allConstantBuffers_ : e[1] = key
        THEN (CHOOSE e \in s.allConstantBuffers_ : e[1] = key)[2]
        ELSE Len(s.constantBuffers) + 1

\* the state GetOrCreateConstantBuffer leaves
GetOrCreateConstantBuffer(s, type, index, size, created) ==
    LET key == ConstantBufferKey(type, index, size)
    IN  IF \E e \in s.allConstantBuffers_ : e[1] = key
        THEN s
        ELSE [s EXCEPT !.constantBuffers = Append(@, SetSize(size, created)),
                       !.allConstantBuffers_ = @ \cup {<<key, Len(s.constantBuffers) + 1>>}]

-----------------------------------------------------------------------------
(* Shaders and shader programs.  A ShaderProgram is its position in        *)
(* shaderPrograms_, 0 is the null pointer.                                 *)

\* a Create that leaves no compiler output when the shader does not compile
CreateShaderUnrecorded(s, sh) ==
    IF Compiles(sh)
    THEN [Log(s, [op |-> "CreateShader", shader |-> sh])
            EXCEPT !.shaderObject_[sh] = TRUE, !.reflected_[sh] = TRUE]
    ELSE Log(s, [op |-> "CreateShader", shader |-> sh])

\* ShaderVariation::Create as SetShaders sees it
CreateShader(s, sh) ==
    IF Compiles(sh)
    THEN [Log(s, [op |-> "CreateShader", shader |-> sh])
            EXCEPT !.shaderObject_[sh] = TRUE, !.reflected_[sh] = TRUE]
    ELSE [Log(s, [op |-> "CreateShader", shader |-> sh])
            EXCEPT !.compilerOutput_[sh] = TRUE]

\* vsShaderParameterGroupMap and psShaderParameterGroupMap
ShaderParameterGroupMap(type) ==
    IF type = VS
    THEN ("FrameVS" :> SP_FRAME) @@ ("CameraVS" :> SP_CAMERA) @@ ("ZoneVS" :> SP_ZONE)
         @@ ("LightVS" :> SP_LIGHT) @@ ("MaterialVS" :> SP_MATERIAL)
         @@ ("ObjectVS" :> SP_OBJECT)
    ELSE ("FramePS" :> SP_FRAME) @@ ("CameraPS" :> SP_CAMERA) @@ ("ZonePS" :> SP_ZONE)
         @@ ("LightPS" :> SP_LIGHT) @@ ("MaterialPS" :> SP_MATERIAL)

\* ShaderVariation::Create, lines 169-185: the group of every constant buffer
\* of the reflection, MAX_SHADER_PARAMETER_GROUPS for a name not in the table
TableGroups(type, names) ==
    [i \in 1..Len(names) |->
        IF names[i] \in DOMAIN ShaderParameterGroupMap(type)
        THEN ShaderParameterGroupMap(type)[names[i]]
        ELSE MAX_SHADER_PARAMETER_GROUPS]

\* lines 187-203: resource r and the ones after it, used the groups taken
RECURSIVE FirstFit(_, _, _, _)
FirstFit(groups, used, nextGroupIndex, r) ==
    IF r > Len(groups) THEN groups
    ELSE LET unused == {i \in nextGroupIndex..(MAX_SHADER_PARAMETER_GROUPS - 1) : i \notin used}
         IN  IF groups[r] >= MAX_SHADER_PARAMETER_GROUPS /\ unused # {}
             THEN LET i == CHOOSE x \in unused : \A y \in unused : x <= y
                  IN  FirstFit([groups EXCEPT ![r] = i], used \cup {i}, i + 1, r + 1)
             ELSE FirstFit(groups, used, nextGroupIndex, r + 1)

\* lines 155-203: the shaderParameterGroup_ of the constant buffers named
\* names, in the order of the reflection
AssignParameterGroups(type, names) ==
    FirstFit(TableGroups(type, names),
             {ShaderParameterGroupMap(type)[n] :
                n \in {names[i] : i \in 1..Len(names)} \cap DOMAIN ShaderParameterGroupMap(type)},
             0, 1)

\* ShaderVariation::Release as it is compiled: the constant buffer sizes and
\* the parameters of the shader are cleared, its device object is kept
Release(s, sh) == [s EXCEPT !.reflected_[sh] = FALSE]

\* ShaderVariation::GetConstantBufferSizes, all zero until the shader is
\* created and after it is released
GetConstantBufferSizes(s, sh) ==
    IF s.reflected_[sh] THEN ConstantBufferSizes(sh) ELSE [i \in ParameterGroups |-> 0]

\* ShaderVariation::GetParameters, empty until the shader is created and
\* after it is released
GetParameters(s, sh) ==
    IF s.reflected_[sh] THEN ShaderParameters(sh) ELSE {}

\* the shader SetShaders records for a requested shader: created on first
\* use, null when it does not compile or failed to compile before
RecordedShader(s, sh) ==
    IF sh # NULL /\ ~s.shaderObject_[sh]
    THEN IF ~s.compilerOutput_[sh] /\ Compiles(sh) THEN sh ELSE NULL
    ELSE sh

\* ShaderProgram::ShaderProgram, the buffers of one stage from group i on
RECURSIVE CreateStageBuffers(_, _, _, _)
CreateStageBuffers(s, sh, i, created) ==
    IF i >= MAX_SHADER_PARAMETER_GROUPS THEN s
    ELSE CreateStageBuffers(
            IF GetConstantBufferSizes(s, sh)[i] # 0
            THEN GetOrCreateConstantBuffer(s, ShaderTypeOf(sh), i,
                                           GetConstantBufferSizes(s, sh)[i], created)
            ELSE s,
            sh, i + 1, created)

\* ShaderProgram::vsConstantBuffers_ / psConstantBuffers_ once s holds them
StageBuffers(s, sh) ==
    [i \in ParameterGroups |->
        IF GetConstantBufferSizes(s, sh)[i] # 0
        THEN ConstantBufferFor(s, ShaderTypeOf(sh), i, GetConstantBufferSizes(s, sh)[i])
        ELSE 0]

\* ShaderProgram::parameters_: the parameters of both shaders, each linked
\* to the constant buffer of its group
ProgramParameters(s, vs, ps) ==
    { [name |-> q.name, offset_ |-> q.offset, bufferPtr_ |-> StageBuffers(s, vs)[q.group]]
        : q \in GetParameters(s, vs) } \cup
    { [name |-> q.name, offset_ |-> q.offset, bufferPtr_ |-> StageBuffers(s, ps)[q.group]]
        : q \in GetParameters(s, ps) }

NewShaderProgram(s, vs, ps, created) ==
    LET \* s1 the state with the buffers of both stages
        Program(s1) ==
            [s1 EXCEPT !.shaderPrograms_ =
                Append(@, [vertexShader |-> vs, pixelShader |-> ps,
                           vsConstantBuffers_ |-> StageBuffers(s1, vs),
                           psConstantBuffers_ |-> StageBuffers(s1, ps),
                           parameters_ |-> ProgramParameters(s1, vs, ps)])]
    IN  Program(CreateStageBuffers(CreateStageBuffers(s, vs, 0, created), ps, 0, created))

FindShaderProgram(s, vs, ps) ==
    IF \E i \in 1..Len(s.shaderPrograms_) :
            s.shaderPrograms_[i].vertexShader = vs /\ s.shaderPrograms_[i].pixelShader = ps
    THEN CHOOSE i \in 1..Len(s.shaderPrograms_) :
            s.shaderPrograms_[i].vertexShader = vs /\ s.shaderPrograms_[i].pixelShader = ps
    ELSE 0

\* a SetShaders that keeps the program it had when a stage is left unbound
SetShadersKeepingProgram(s, vs, ps, created) ==
    LET \* lines 1014-1055, s2 the state with both shaders recorded
        Program(s2) ==
            IF s2.vertexShader_ # NULL /\ s2.pixelShader_ # NULL
            THEN IF FindShaderProgram(s2, s2.vertexShader_, s2.pixelShader_) # 0
                 THEN [s2 EXCEPT !.shaderProgram_ =
                            FindShaderProgram(s2, s2.vertexShader_, s2.pixelShader_)]
                 ELSE [NewShaderProgram(s2, s2.vertexShader_, s2.pixelShader_, created)
                        EXCEPT !.shaderProgram_ = Len(s2.shaderPrograms_) + 1]
            ELSE s2
        \* lines 990-1012, s1 the state with the vertex shader recorded
        Pixel(s1) ==
            Program(IF ps # s1.pixelShader_
                    THEN [(IF ps # NULL /\ ~s1.shaderObject_[ps] /\ ~s1.compilerOutput_[ps]
                           THEN CreateShader(s1, ps) ELSE s1)
                            EXCEPT !.pixelShader_ = RecordedShader(s1, ps),
                                   !.pixelShaderDirty_ = TRUE]
                    ELSE s1)
    IN  Pixel(IF vs # s.vertexShader_
              THEN [(IF vs # NULL /\ ~s.shaderObject_[vs] /\ ~s.compilerOutput_[vs]
                     THEN CreateShader(s, vs) ELSE s)
                      EXCEPT !.vertexShader_ = RecordedShader(s, vs),
                             !.vertexShaderDirty_ = TRUE,
                             !.vertexDeclarationDirty_ = TRUE]
              ELSE s)

SetShaders(s, vs, ps, created) ==
    LET \* lines 1014-1055, s2 the state with both shaders recorded
        Program(s2) ==
            IF s2.vertexShader_ # NULL /\ s2.pixelShader_ # NULL
            THEN IF FindShaderProgram(s2, s2.vertexShader_, s2.pixelShader_) # 0
                 THEN [s2 EXCEPT !.shaderProgram_ =
                            FindShaderProgram(s2, s2.vertexShader_, s2.pixelShader_)]
                 ELSE [NewShaderProgram(s2, s2.vertexShader_, s2.pixelShader_, created)
                        EXCEPT !.shaderProgram_ = Len(s2.shaderPrograms_) + 1]
            ELSE [s2 EXCEPT !.shaderProgram_ = 0]
        \* lines 990-1012, s1 the state with the vertex shader recorded
        Pixel(s1) ==
            Program(IF ps # s1.pixelShader_
                    THEN [(IF ps # NULL /\ ~s1.shaderObject_[ps] /\ ~s1.compilerOutput_[ps]
                           THEN CreateShader(s1, ps) ELSE s1)
                            EXCEPT !.pixelShader_ = RecordedShader(s1, ps),
                                   !.pixelShaderDirty_ = TRUE]
                    ELSE s1)
    IN  Pixel(IF vs # s.vertexShader_
              THEN [(IF vs # NULL /\ ~s.shaderObject_[vs] /\ ~s.compilerOutput_[vs]
                     THEN CreateShader(s, vs) ELSE s)
                      EXCEPT !.vertexShader_ = RecordedShader(s, vs),
                             !.vertexShaderDirty_ = TRUE,
                             !.vertexDeclarationDirty_ = TRUE]
              ELSE s)

\* one parameter of 16 bytes (count = 4 floats)
SetShaderParameter(s, param, data) ==
    IF s.shaderProgram_ = 0
       \/ ~\E q \in s.shaderPrograms_[s.shaderProgram_].parameters_ : q.name = param
    THEN s
    ELSE LET q == CHOOSE q \in s.shaderPrograms_[s.shaderProgram_].parameters_ : q.name = param
             buffer == q.bufferPtr_
         IN  [s EXCEPT !.dirtyConstantBuffers_ =
                            IF ~s.constantBuffers[buffer].dirty_ THEN Append(@, buffer) ELSE @,
                       !.constantBuffers[buffer] = SetParameter(@, q.offset_, CellBytes, data)]

-----------------------------------------------------------------------------
(* The state hashes of PrepareDraw                                         *)

Bit(b) == IF b THEN 1 ELSE 0

BlendStateHash(s) ==
    BitOr(BitOr(Bit(s.colorWrite_), 2 * Bit(s.alphaToCoverage_)), s.blendMode_ * 4)

\* a depth hash with the compare mask one bit lower, over the compare mode
DepthStateHashOverlapping(s) ==
    BitOr(BitOr(BitOr(BitOr(BitOr(BitOr(
        Bit(s.depthWrite_),
        2 * Bit(s.stencilTest_)),
        s.depthTestMode_ * 4),
        (s.stencilCompareMask_ % 256) * Pow2(4)),
        (s.stencilWriteMask_ % 256) * Pow2(13)),
        s.stencilTestMode_ * Pow2(21)),
        (s.stencilFail_ + s.stencilZFail_ * 5 + s.stencilPass_ * 25) * Pow2(24))

DepthStateHash(s) ==
    BitOr(BitOr(BitOr(BitOr(BitOr(BitOr(
        Bit(s.depthWrite_),
        2 * Bit(s.stencilTest_)),
        s.depthTestMode_ * 4),
        (s.stencilCompareMask_ % 256) * Pow2(5)),
        (s.stencilWriteMask_ % 256) * Pow2(13)),
        s.stencilTestMode_ * Pow2(21)),
        (s.stencilFail_ + s.stencilZFail_ * 5 + s.stencilPass_ * 25) * Pow2(24))

\* depth bits of the bound depth-stencil
DepthBits(s) ==
    IF s.depthStencil_ # NULL /\ IsR16Typeless(ParentTexture(s.depthStencil_))
    THEN 16 ELSE 24

\* (int)(constantDepthBias_ * (1 << depthBits)), the bias held in units of 2^-24
ScaledDepthBias(s) ==
    TruncDiv(s.constantDepthBias_, Pow2(24 - DepthBits(s)))

\* a rasterizer hash without the cull mode
RasterizerStateHashNoCull(s) ==
    Pack19(s.slopeScaledDepthBias_ % 8192,
           BitOr(BitOr(BitOr(
               Bit(s.scissorTest_),
               2 * Bit(s.lineAntiAlias_)),
               s.fillMode_ * 4),
               (ScaledDepthBias(s) % 8192) * 64))

RasterizerStateHash(s) ==
    Pack19(s.slopeScaledDepthBias_ % 8192,
           BitOr(BitOr(BitOr(BitOr(
               Bit(s.scissorTest_),
               2 * Bit(s.lineAntiAlias_)),
               s.fillMode_ * 4),
               s.cullMode_ * 16),
               (ScaledDepthBias(s) % 8192) * 64))

\* OR of GetBufferHash(i) over the bound streams from stream i on
RECURSIVE NewVertexDeclarationHash(_, _)
NewVertexDeclarationHash(s, i) ==
    IF i >= MAX_VERTEX_STREAMS THEN Zero64
    ELSE Or64(IF s.vertexBuffers_[i] # NULL
              THEN GetBufferHash(s.vertexBuffers_[i], i) ELSE Zero64,
              NewVertexDeclarationHash(s, i + 1))

-----------------------------------------------------------------------------
(* PrepareDraw                                                             *)

\* a bind that takes the backbuffer whenever slot 0 holds no render target,
\* whatever the size of the depth-stencil
PrepareRenderTargetsOfAnySize(s) ==
    IF ~s.renderTargetsDirty_ THEN s
    ELSE
    LET ds == s.depthStencil_
        dsv == IF ds # NULL /\ SurfaceUsage(ds) = TEXTURE_DEPTHSTENCIL
               THEN RenderTargetViewOf(ds) ELSE DefaultDepthStencilView
        rtv0 == [i \in RenderTargetSlots |->
                    IF s.renderTargets_[i] # NULL
                       /\ SurfaceUsage(s.renderTargets_[i]) = TEXTURE_RENDERTARGET
                    THEN RenderTargetViewOf(s.renderTargets_[i]) ELSE NULL]
        rtv == IF s.renderTargets_[0] = NULL
               THEN [rtv0 EXCEPT ![0] = DefaultRenderTargetView] ELSE rtv0
    IN  [SetViewport(Log([s EXCEPT !.depthStencilView_ = dsv, !.renderTargetViews_ = rtv],
                             [op |-> "SetRenderTargets", views |-> rtv, depthStencil |-> dsv]),
                         s.viewport_)
            EXCEPT !.renderTargetsDirty_ = FALSE]

\* lines 2339-2366: bind the render targets when they are dirty
PrepareRenderTargets(s) ==
    IF ~s.renderTargetsDirty_ THEN s
    ELSE
    LET ds == s.depthStencil_
        dsv0 == IF ds # NULL /\ SurfaceUsage(ds) = TEXTURE_DEPTHSTENCIL
                THEN RenderTargetViewOf(ds) ELSE DefaultDepthStencilView
        dsv == IF ~s.depthWrite_ /\ ds # NULL /\ ReadOnlyViewOf(ds) # NULL
               THEN ReadOnlyViewOf(ds) ELSE dsv0
        rtv0 == [i \in RenderTargetSlots |->
                    IF s.renderTargets_[i] # NULL
                       /\ SurfaceUsage(s.renderTargets_[i]) = TEXTURE_RENDERTARGET
                    THEN RenderTargetViewOf(s.renderTargets_[i]) ELSE NULL]
        rtv == IF s.renderTargets_[0] = NULL
                  /\ (ds = NULL \/ (SurfaceWidth(ds) = BackbufferWidth
                                    /\ SurfaceHeight(ds) = BackbufferHeight))
               THEN [rtv0 EXCEPT ![0] = DefaultRenderTargetView] ELSE rtv0
    IN  [SetViewport(Log([s EXCEPT !.depthStencilView_ = dsv, !.renderTargetViews_ = rtv],
                             [op |-> "SetRenderTargets", views |-> rtv, depthStencil |-> dsv]),
                         s.viewport_)
            EXCEPT !.renderTargetsDirty_ = FALSE]

\* a bind that hands over the first dirty stream only
BindFirstDirtyVertexBuffer(s) ==
    IF ULess(s.firstDirtyVB_, M_MAX_UNSIGNED)
    THEN LET range == s.firstDirtyVB_..s.firstDirtyVB_
             entry == [op |-> "SetVertexBuffers",
                       first |-> s.firstDirtyVB_,
                       count |-> 1,
                       buffers |-> [i \in range |-> s.implVertexBuffers_[i]],
                       offsets |-> [i \in range |-> s.vertexOffsets_[i]]]
         IN  [Log(s, entry) EXCEPT
                !.deviceVertexBuffers[s.firstDirtyVB_] =
                    [buffer |-> s.implVertexBuffers_[s.firstDirtyVB_],
                     offset |-> s.vertexOffsets_[s.firstDirtyVB_]],
                !.firstDirtyVB_ = M_MAX_UNSIGNED,
                !.lastDirtyVB_ = M_MAX_UNSIGNED]
    ELSE s

\* lines 2379-2389: hand the dirty range of vertex streams to the device
BindDirtyVertexBuffers(s) ==
    IF ULess(s.firstDirtyVB_, M_MAX_UNSIGNED)
    THEN LET range == s.firstDirtyVB_..s.lastDirtyVB_
             entry == [op |-> "SetVertexBuffers",
                       first |-> s.firstDirtyVB_,
                       count |-> s.lastDirtyVB_ - s.firstDirtyVB_ + 1,
                       buffers |-> [i \in range |-> s.implVertexBuffers_[i]],
                       offsets |-> [i \in range |-> s.vertexOffsets_[i]]]
         IN  [Log(s, entry) EXCEPT
                !.deviceVertexBuffers =
                    [i \in Streams |->
                        IF i \in range
                        THEN [buffer |-> s.implVertexBuffers_[i], offset |-> s.vertexOffsets_[i]]
                        ELSE @[i]],
                !.firstDirtyVB_ = M_MAX_UNSIGNED,
                !.lastDirtyVB_ = M_MAX_UNSIGNED]
    ELSE s

\* an update that records the hash of no buffer as well
UpdateVertexDeclarationOfAny(s) ==
    [s EXCEPT !.vertexDeclarationHash_ = NewVertexDeclarationHash(s, 0)]

\* lines 2391-2410: the vertex-declaration hash, recorded when not zero
UpdateVertexDeclaration(s) ==
    LET new == NewVertexDeclarationHash(s, 0)
    IN  IF new # Zero64 /\ new # s.vertexDeclarationHash_
        THEN [s EXCEPT !.vertexDeclarationHash_ = new]
        ELSE s

\* lines 2418-2431
UpdateBlendState(s) ==
    IF ~s.blendStateDirty_ THEN s
    ELSE [(IF BlendStateHash(s) # s.blendStateHash_
           THEN [Log(s, [op |-> "SetBlendFactors"])
                    EXCEPT !.blendStateHash_ = BlendStateHash(s)]
           ELSE s)
            EXCEPT !.blendStateDirty_ = FALSE]

\* lines 2433-2446
UpdateDepthState(s) ==
    IF ~s.depthStateDirty_ THEN s
    ELSE [s EXCEPT !.depthStateHash_ = DepthStateHash(s),
                   !.depthStateDirty_ = FALSE]

\* lines 2453-2465
UpdateRasterizerState(s) ==
    IF ~s.rasterizerStateDirty_ THEN s
    ELSE [s EXCEPT !.rasterizerStateHash_ = RasterizerStateHash(s),
                   !.rasterizerStateDirty_ = FALSE]

\* what lines 2373-2468 leave, the hashes brought up to date
UpdateStateHashes(s) ==
    [UpdateRasterizerState(UpdateDepthState(UpdateBlendState(
        [(IF s.vertexDeclarationDirty_ /\ s.vertexShader_ # NULL
          THEN UpdateVertexDeclaration(BindDirtyVertexBuffers(s)) ELSE s)
            EXCEPT !.primitiveTypeDirty_ = FALSE])))
        EXCEPT !.vertexShaderDirty_ = FALSE, !.pixelShaderDirty_ = FALSE]

\* the local pipelineStateDirty of PrepareDraw, s the state at line 2373
PipelineStateDirty(s) ==
    \/ s.vertexShaderDirty_ \/ s.pixelShaderDirty_
    \/ /\ s.vertexDeclarationDirty_ /\ s.vertexShader_ # NULL
       /\ NewVertexDeclarationHash(s, 0) # Zero64
       /\ NewVertexDeclarationHash(s, 0) # s.vertexDeclarationHash_
    \/ s.primitiveTypeDirty_
    \/ s.blendStateDirty_ /\ BlendStateHash(s) # s.blendStateHash_
    \/ s.depthStateDirty_ /\ (DepthStateHash(s) # s.depthStateHash_ \/ s.stencilRefDirty_)
    \/ s.rasterizerStateDirty_ /\ RasterizerStateHash(s) # s.rasterizerStateHash_


\* the key of line 2475
PipelineKey(s) ==
    <<s.vertexShader_, s.pixelShader_, s.blendStateHash_, s.depthStateHash_,
      s.rasterizerStateHash_, s.vertexDeclarationHash_, s.primitiveType_>>

\* pipelineStates_.find: the cached pipeline of the key, 0 when there is none
FindPipeline(s, key) ==
    IF \E e \in s.pipelineStates_ : e[1] = key
    THEN (CHOOSE e \in s.pipelineStates_ : e[1] = key)[2]
    ELSE 0

\* units of the texture variables of both shaders that name a texture unit
TextureMapOf(vs, ps) ==
    SelectSeq(ShaderTextureUnits(vs) \o ShaderTextureUnits(ps),
              LAMBDA u : ULess(u, MAX_TEXTURE_UNITS))

\* lines 2539-2578, the loop over the elements of the buffer of stream i
\* from element j on; prev is prevLayoutElementsCount and isExisting the
\* flag of that name, which is declared outside the loop
RECURSIVE MergeElements(_, _, _, _, _, _)
MergeElements(layoutElements, prev, i, srcElements, j, isExisting) ==
    LET Same(k, e) == /\ layoutElements[k].HLSLSemantic = e.semantic_
                      /\ layoutElements[k].InputIndex = e.index_
        Known(e) == \E k \in 1..prev : Same(k, e)
        First(e) == CHOOSE k \in 1..prev : Same(k, e) /\ \A m \in 1..(k - 1) : ~Same(m, e)
        Merged(e) ==
            IF Known(e)
            THEN [layoutElements EXCEPT ![First(e)] =
                    [@ EXCEPT !.BufferSlot = i, !.RelativeOffset = e.offset_,
                              !.PerInstance = e.perInstance_]]
            ELSE IF isExisting THEN layoutElements
            ELSE Append(layoutElements,
                        [HLSLSemantic |-> e.semantic_, InputIndex |-> e.index_,
                         ValueType |-> e.type_, BufferSlot |-> i,
                         RelativeOffset |-> e.offset_, PerInstance |-> e.perInstance_])
    IN  IF j > Len(srcElements) THEN layoutElements
        ELSE MergeElements(Merged(srcElements[j]), prev, i, srcElements, j + 1,
                           isExisting \/ Known(srcElements[j]))

\* lines 2530-2581, the loop over the streams from stream i on
RECURSIVE MergeStreams(_, _, _)
MergeStreams(s, layoutElements, i) ==
    IF i >= MAX_VERTEX_STREAMS THEN layoutElements
    ELSE MergeStreams(s,
                      IF s.vertexBuffers_[i] = NULL THEN layoutElements
                      ELSE MergeElements(layoutElements, Len(layoutElements), i,
                                         Elements(s.vertexBuffers_[i]), 1, FALSE),
                      i + 1)

\* lines 2480-2709: what CreateGraphicsPipelineState is given and what is
\* kept with the pipeline; a pipeline is its position in pipelines
NewPipeline(s, key) ==
    [key |-> key,
     name |-> Len(s.pipelines),
     primitiveTopology |-> s.primitiveType_,
     layoutElements |-> MergeStreams(s, <<>>, 0),
     vertexShader |-> s.vertexShader_,
     pixelShader |-> s.pixelShader_,
     blendMode |-> s.blendMode_,
     alphaToCoverage |-> s.alphaToCoverage_,
     colorWrite |-> s.colorWrite_,
     depthWrite |-> s.depthWrite_,
     depthFunc |-> s.depthTestMode_,
     stencilEnable |-> s.stencilTest_,
     stencilReadMask |-> s.stencilCompareMask_ % 256,
     stencilWriteMask |-> s.stencilWriteMask_ % 256,
     stencilFunc |-> s.stencilTestMode_,
     stencilOps |-> <<s.stencilFail_, s.stencilZFail_, s.stencilPass_>>,
     fillMode |-> s.fillMode_,
     cullMode |-> s.cullMode_,
     depthBias |-> ScaledDepthBias(s),
     slopeScaledDepthBias |-> s.slopeScaledDepthBias_,
     scissorEnable |-> s.scissorTest_,
     antialiasedLine |-> s.lineAntiAlias_,
     vsConstantBuffers |-> s.shaderPrograms_[s.shaderProgram_].vsConstantBuffers_,
     psConstantBuffers |-> s.shaderPrograms_[s.shaderProgram_].psConstantBuffers_,
     textureMap |-> TextureMapOf(s.vertexShader_, s.pixelShader_),
     variables |-> [e \in 1..Len(TextureMapOf(s.vertexShader_, s.pixelShader_)) |-> NULL]]

\* lines 2470-2726, s the state after the hashes were brought up to date
ResolvePipeline(s) ==
    LET key == PipelineKey(s)
        found == FindPipeline(s, key)
        pipelineState == IF found = 0 THEN Len(s.pipelines) + 1 ELSE found
        \* lines 2719-2725, s1 the state with the pipeline in the cache
        Adopt(s1) ==
            IF s1.currentPipelineState_ # pipelineState
            THEN [s1 EXCEPT !.currentPipelineState_ = pipelineState,
                            !.currentShaderResourceBinding_ = pipelineState,
                            !.currentTextureMap_ = pipelineState]
            ELSE s1
    IN  Adopt(IF found = 0
              THEN [Log(s, [op |-> "CreateGraphicsPipelineState", key |-> key])
                      EXCEPT !.pipelines = Append(@, NewPipeline(s, key)),
                             !.pipelineStates_ = @ \cup {<<key, pipelineState>>}]
              ELSE s)

\* lines 2741-2751: the texture map entries from entry e on
RECURSIVE CommitTextureEntries(_, _, _)
CommitTextureEntries(s, pipelineStateChanged, e) ==
    LET map == s.pipelines[s.currentTextureMap_].textureMap
    IN  IF e > Len(map) THEN s
        ELSE LET unit == map[e]
                 inRange == ~ULess(unit, s.firstDirtyTexture_)
                            /\ ~ULess(s.lastDirtyTexture_, unit)
             IN  CommitTextureEntries(
                    IF (pipelineStateChanged \/ inRange) /\ s.shaderResourceViews_[unit] # NULL
                    THEN [Log(s, [op |-> "Set", unit |-> unit, entry |-> e,
                                  view |-> s.shaderResourceViews_[unit],
                                  sampler |-> s.samplers_[unit]])
                            EXCEPT !.pipelines[s.currentTextureMap_].variables[e] =
                                        s.shaderResourceViews_[unit]]
                    ELSE s,
                    pipelineStateChanged, e + 1)

\* a commit that updates every mapped unit, whatever the dirty range
CommitTexturesAll(s, pipelineStateChanged) ==
    IF pipelineStateChanged
       \/ (s.texturesDirty_ /\ ULess(s.firstDirtyTexture_, M_MAX_UNSIGNED))
    THEN [(IF s.currentTextureMap_ # 0
           THEN CommitTextureEntries(s, TRUE, 1) ELSE s)
            EXCEPT !.firstDirtyTexture_ = M_MAX_UNSIGNED,
                   !.lastDirtyTexture_ = M_MAX_UNSIGNED,
                   !.texturesDirty_ = FALSE]
    ELSE s

\* a commit that hands the dirty vertex streams, or stream 0 when none is
\* dirty, to the device after the texture variables
CommitTexturesThenBind(s, pipelineStateChanged) ==
    BindDirtyVertexBuffers(
        IF ULess(s.firstDirtyVB_, M_MAX_UNSIGNED)
        THEN CommitTexturesAll(s, pipelineStateChanged)
        ELSE [CommitTexturesAll(s, pipelineStateChanged)
                EXCEPT !.firstDirtyVB_ = 0, !.lastDirtyVB_ = 0])

\* lines 2735-2756
CommitTextures(s, pipelineStateChanged) ==
    IF pipelineStateChanged
       \/ (s.texturesDirty_ /\ ULess(s.firstDirtyTexture_, M_MAX_UNSIGNED))
    THEN [(IF s.currentTextureMap_ # 0
           THEN CommitTextureEntries(s, pipelineStateChanged, 1) ELSE s)
            EXCEPT !.firstDirtyTexture_ = M_MAX_UNSIGNED,
                   !.lastDirtyTexture_ = M_MAX_UNSIGNED,
                   !.texturesDirty_ = FALSE]
    ELSE s

\* lines 2762-2771
CommitScissorRect(s) ==
    IF s.scissorRectDirty_
    THEN [Log(s, [op |-> "SetScissorRects", rect |-> s.scissorRect_])
            EXCEPT !.scissorRectDirty_ = FALSE]
    ELSE s

\* lines 2773-2774: Apply on the dirty constant buffers from position i on
RECURSIVE ApplyDirtyConstantBuffers(_, _, _)
ApplyDirtyConstantBuffers(s, mapped, i) ==
    IF i > Len(s.dirtyConstantBuffers_) THEN s
    ELSE LET buffer == s.dirtyConstantBuffers_[i]
             cb == s.constantBuffers[buffer]
             s1 == IF cb.dirty_ /\ cb.object_
                   THEN Log(s, [op |-> "MapBuffer", buffer |-> buffer]) ELSE s
         IN  ApplyDirtyConstantBuffers(
                [s1 EXCEPT !.constantBuffers[buffer] = Apply(cb, mapped)], mapped, i + 1)

\* mapped tells whether the device's MapBuffer returns memory during this call
PrepareDraw(s, mapped) ==
    LET \* lines 2758-2775
        Commit(s4) ==
            [ApplyDirtyConstantBuffers(
                CommitScissorRect(
                    Log(s4, [op |-> "CommitShaderResources",
                             binding |-> s4.currentShaderResourceBinding_])),
                mapped, 1)
                EXCEPT !.dirtyConstantBuffers_ = <<>>]
        \* lines 2729-2756, s2 the state with its pipeline resolved
        Bind(s2, pipelineStateChanged) ==
            Commit(CommitTextures(
                Log(s2, [op |-> "SetPipelineState", pipeline |-> s2.currentPipelineState_]),
                pipelineStateChanged))
        \* s2 against the pipeline that was current before
        Resolved(s2, before) == Bind(s2, s2.currentPipelineState_ # before)
        \* lines 2368-2727, s1 the state with the render targets bound
        Resolve(s1) ==
            IF s1.vertexShader_ = NULL \/ s1.pixelShader_ = NULL
            THEN s1
            ELSE Resolved(
                    IF \/ s1.vertexShaderDirty_ \/ s1.pixelShaderDirty_
                       \/ s1.blendStateDirty_ \/ s1.depthStateDirty_
                       \/ s1.rasterizerStateDirty_ \/ s1.primitiveTypeDirty_
                       \/ s1.vertexDeclarationDirty_
                    THEN IF PipelineStateDirty(s1)
                         THEN ResolvePipeline(UpdateStateHashes(s1))
                         ELSE UpdateStateHashes(s1)
                    ELSE s1,
                    s1.currentPipelineState_)
    IN  Resolve(PrepareRenderTargets(s))

-----------------------------------------------------------------------------
(* Draw calls                                                              *)

GetPrimitiveCount(elementCount, type) ==
    CASE type = TRIANGLE_LIST -> elementCount \div 3
      [] type = LINE_LIST -> elementCount \div 2
      [] type = POINT_LIST -> elementCount
      [] type = TRIANGLE_STRIP -> elementCount - 2
      [] type = LINE_STRIP -> elementCount - 1
      [] OTHER -> 0

\* GraphicsImpl::SetPrimitiveType
SetPrimitiveType(s, type) ==
    IF type # s.primitiveType_
    THEN [s EXCEPT !.primitiveType_ = type, !.primitiveTypeDirty_ = TRUE]
    ELSE s

\* the type a draw call uses for the type it was given
CoercedType(s, type) == IF s.fillMode_ = FILL_POINT THEN POINT_LIST ELSE type

\* a Draw that refuses nothing
DrawUnguarded(s, type, vertexStart, vertexCount, mapped) ==
    LET t == CoercedType(s, type)
    IN  [Log(PrepareDraw(SetPrimitiveType(s, t), mapped),
             [op |-> "Draw", numVertices |-> vertexCount,
              startVertexLocation |-> vertexStart])
            EXCEPT !.numPrimitives_ = @ + GetPrimitiveCount(vertexCount, t),
                   !.numBatches_ = @ + 1]

\* a Draw that issues the draw command before it prepares the draw
DrawBeforePrepare(s, type, vertexStart, vertexCount, mapped) ==
    IF vertexCount = 0 \/ s.shaderProgram_ = 0 THEN s
    ELSE LET t == CoercedType(s, type)
         IN  [PrepareDraw(Log(SetPrimitiveType(s, t),
                              [op |-> "Draw", numVertices |-> vertexCount,
                               startVertexLocation |-> vertexStart]),
                          mapped)
                EXCEPT !.numPrimitives_ = @ + GetPrimitiveCount(vertexCount, t),
                       !.numBatches_ = @ + 1]

\* Draw(type, vertexStart, vertexCount)
Draw(s, type, vertexStart, vertexCount, mapped) ==
    IF vertexCount = 0 \/ s.shaderProgram_ = 0 THEN s
    ELSE LET t == CoercedType(s, type)
         IN  [Log(PrepareDraw(SetPrimitiveType(s, t), mapped),
                  [op |-> "Draw", numVertices |-> vertexCount,
                   startVertexLocation |-> vertexStart])
                EXCEPT !.numPrimitives_ = @ + GetPrimitiveCount(vertexCount, t),
                       !.numBatches_ = @ + 1]

\* Draw(type, indexStart, indexCount, minVertex, vertexCount)
DrawIndexed(s, type, indexStart, indexCount, minVertex, vertexCount, mapped) ==
    IF vertexCount = 0 \/ s.shaderProgram_ = 0 THEN s
    ELSE LET t == CoercedType(s, type)
         IN  [Log(PrepareDraw(SetPrimitiveType(s, t), mapped),
                  [op |-> "DrawIndexed", numIndices |-> indexCount,
                   firstIndexLocation |-> indexStart, numInstances |-> 1])
                EXCEPT !.numPrimitives_ = @ + GetPrimitiveCount(indexCount, t),
                       !.numBatches_ = @ + 1]

\* DrawInstanced(type, indexStart, indexCount, minVertex, vertexCount, instanceCount)
DrawInstanced(s, type, indexStart, indexCount, minVertex, vertexCount, instanceCount, mapped) ==
    IF indexCount = 0 \/ instanceCount = 0 \/ s.shaderProgram_ = 0 THEN s
    ELSE LET t == CoercedType(s, type)
         IN  [Log(PrepareDraw(SetPrimitiveType(s, t), mapped),
                  [op |-> "DrawIndexed", numIndices |-> indexCount,
                   firstIndexLocation |-> indexStart, numInstances |-> instanceCount])
                EXCEPT !.numPrimitives_ = @ + instanceCount * GetPrimitiveCount(indexCount, t),
                       !.numBatches_ = @ + 1]

-----------------------------------------------------------------------------
(* What the claims need to remember about a behaviour                      *)

\* the inputs of the pipeline key as the draw that leaves s used them
DrawInputs(s) ==
    <<s.vertexShader_, s.pixelShader_,
      <<s.colorWrite_, s.alphaToCoverage_, s.blendMode_>>,
      <<s.depthWrite_, s.stencilTest_, s.depthTestMode_, s.stencilCompareMask_,
        s.stencilWriteMask_, s.stencilTestMode_, s.stencilFail_, s.stencilZFail_,
        s.stencilPass_>>,
      <<s.scissorTest_, s.lineAntiAlias_, s.fillMode_, s.cullMode_,
        s.constantDepthBias_, s.slopeScaledDepthBias_, DepthBits(s)>>,
      s.vertexDeclarationHash_, s.primitiveType_>>

\* the same inputs by name, the vertex declaration being that of the bound
\* vertex buffers
KeyFields(s) ==
    [vertexShader |-> s.vertexShader_, pixelShader |-> s.pixelShader_,
     colorWrite |-> s.colorWrite_, alphaToCoverage |-> s.alphaToCoverage_,
     blendMode |-> s.blendMode_,
     depthWrite |-> s.depthWrite_, depthTest |-> s.depthTestMode_,
     stencilTest |-> s.stencilTest_, stencilCompareMask |-> s.stencilCompareMask_,
     stencilWriteMask |-> s.stencilWriteMask_, stencilTestMode |-> s.stencilTestMode_,
     stencilFail |-> s.stencilFail_, stencilZFail |-> s.stencilZFail_,
     stencilPass |-> s.stencilPass_,
     scissorTest |-> s.scissorTest_, lineAntiAlias |-> s.lineAntiAlias_,
     fillMode |-> s.fillMode_, cullMode |-> s.cullMode_,
     depthBias |-> <<s.constantDepthBias_, s.slopeScaledDepthBias_, DepthBits(s)>>,
     vertexDeclaration |-> NewVertexDeclarationHash(s, 0),
     primitiveType |-> s.primitiveType_]

NoFields == [none |-> TRUE]

InitHist ==
    [calls |-> 0,          \* calls other than draws so far
     draws |-> {},         \* <<DrawInputs, pipeline>> of every accepted draw
     keys |-> {},          \* PipelineKey of every accepted draw
     prevKey |-> <<>>,     \* PipelineKey of the previous accepted draw
     prevFields |-> NoFields,  \* KeyFields of the previous accepted draw
     prevRef |-> 0,        \* stencilRef_ at the previous accepted draw
     vbChanged |-> {},     \* streams changed since the last device bind
     texChanged |-> {},    \* units whose binding a call changed since the last draw
     texTouched |-> {},    \* units SetTexture was called for since the last draw
     written |-> {},       \* constant buffers written since the last draw
     requests |-> {}]      \* <<<<stage, slot, size>>, buffer>> of every
                           \* GetOrCreateConstantBuffer call

\* the state a call starts from: the device calls of the call before it are
\* forgotten
Begin == [g EXCEPT !.log = <<>>]

\* everything of a state but the device calls of the last call
Tracked(s) == [s EXCEPT !.log = <<>>]

ChangedStreams(s, t) ==
    {i \in Streams : t.vertexBuffers_[i] # s.vertexBuffers_[i]
                     \/ t.vertexOffsets_[i] # s.vertexOffsets_[i]}

ChangedUnits(s, t) == {i \in TextureUnits : t.textures_[i] # s.textures_[i]}

\* the arguments of a draw call: the type asked for, the number of elements
\* and the number of instances
DrawArgs(type, count, instances) == [type |-> type, count |-> count, instances |-> instances]

NoDraw == DrawArgs(0, 0, 0)

\* a call other than a draw: name, whether it was given what is recorded
\* already, the state it leaves, the units and constant buffers it was about
\* args are the inputs of the call that a property needs, result is what the
\* call returned, TRUE for a call that returns nothing
SetterOf(name, same, t, units, buffers, args, result) ==
    /\ g' = t
    /\ call' = [op |-> name, same |-> same, accepted |-> TRUE, mapped |-> TRUE,
                units |-> units, empty |-> FALSE, before |-> InitHist, draw |-> NoDraw,
                args |-> args, result |-> result]
    /\ hist' = [hist EXCEPT !.calls = @ + 1,
                            !.vbChanged = @ \cup ChangedStreams(g, t),
                            !.texChanged = @ \cup ChangedUnits(g, t),
                            !.texTouched = @ \cup units,
                            !.written = @ \cup buffers]

Setter(name, same, t, units, buffers) ==
    SetterOf(name, same, t, units, buffers, <<>>, TRUE)

\* a draw call: name, whether MapBuffer works, whether a count the call
\* refuses to be zero is zero, the state it leaves
DrawCall(name, mapped, empty, t, args) ==
    LET accepted == t.numBatches_ # g.numBatches_
    IN  /\ accepted => g.numBatches_ < MaxBatches
        /\ g' = t
        /\ call' = [op |-> name, same |-> FALSE, accepted |-> accepted,
                    mapped |-> mapped, units |-> {}, empty |-> empty, before |-> hist,
                    draw |-> args, args |-> <<>>, result |-> TRUE]
        /\ hist' = IF accepted
                   THEN [hist EXCEPT
                            !.draws = @ \cup {<<DrawInputs(t), t.currentPipelineState_>>},
                            !.keys = @ \cup {PipelineKey(t)},
                            !.prevKey = PipelineKey(t),
                            !.prevFields = KeyFields(t),
                            !.prevRef = t.stencilRef_,
                            !.vbChanged = IF FirstCall(t, "SetVertexBuffers") # 0 THEN {} ELSE @,
                            !.texChanged = {},
                            !.texTouched = {},
                            !.written = {}]
                   ELSE hist

Init ==
    /\ g = InitState
    /\ call = [op |-> "Graphics", same |-> FALSE, accepted |-> TRUE, mapped |-> TRUE,
               units |-> {}, empty |-> FALSE, before |-> InitHist, draw |-> NoDraw,
               args |-> <<>>, result |-> TRUE]
    /\ hist = InitHist

-----------------------------------------------------------------------------
(* Actions: one public method each, its arguments drawn from the sets the  *)
(* specification using it gives                                            *)

DoSetBlendMode(modes, coverages) ==
    \E mode \in modes, alphaToCoverage \in coverages :
        Setter("SetBlendMode",
               mode = g.blendMode_ /\ alphaToCoverage = g.alphaToCoverage_,
               SetBlendMode(Begin, mode, alphaToCoverage), {}, {})

DoSetColorWrite ==
    \E enable \in BOOLEAN :
        Setter("SetColorWrite", enable = g.colorWrite_, SetColorWrite(Begin, enable), {}, {})

DoSetCullMode(modes) ==
    \E mode \in modes :
        Setter("SetCullMode", mode = g.cullMode_, SetCullMode(Begin, mode), {}, {})

DoSetDepthBias(constantBiases, slopeScaledBiases) ==
    \E constantBias \in constantBiases, slopeScaledBias \in slopeScaledBiases :
        Setter("SetDepthBias",
               constantBias = g.constantDepthBias_ /\ slopeScaledBias = g.slopeScaledDepthBias_,
               SetDepthBias(Begin, constantBias, slopeScaledBias), {}, {})

DoSetDepthTest(modes) ==
    \E mode \in modes :
        Setter("SetDepthTest", mode = g.depthTestMode_, SetDepthTest(Begin, mode), {}, {})

DoSetDepthWrite ==
    \E enable \in BOOLEAN :
        Setter("SetDepthWrite", enable = g.depthWrite_, SetDepthWrite(Begin, enable), {}, {})

DoSetFillMode(modes) ==
    \E mode \in modes :
        Setter("SetFillMode", mode = g.fillMode_, SetFillMode(Begin, mode), {}, {})

DoSetLineAntiAlias ==
    \E enable \in BOOLEAN :
        Setter("SetLineAntiAlias", enable = g.lineAntiAlias_,
               SetLineAntiAlias(Begin, enable), {}, {})

\* what SetStencilTest is given: enable, mode, pass, fail, zFail, stencilRef,
\* compareMask, writeMask
StencilArgs(s) ==
    <<s.stencilTest_, s.stencilTestMode_, s.stencilPass_, s.stencilFail_,
      s.stencilZFail_, s.stencilRef_, s.stencilCompareMask_, s.stencilWriteMask_>>

DoSetStencilTest(argsSet) ==
    \E a \in argsSet :
        Setter("SetStencilTest", a = StencilArgs(g),
               SetStencilTest(Begin, a[1], a[2], a[3], a[4], a[5], a[6], a[7], a[8]), {}, {})

DoSetScissorTest(rects) ==
    \E enable \in BOOLEAN, rect \in rects :
        Setter("SetScissorTest", FALSE, SetScissorTestInt(Begin, enable, rect), {}, {})

DoSetScissorTestRect(rects) ==
    \E enable \in BOOLEAN, rect \in rects, borderInclusive \in BOOLEAN :
        Setter("SetScissorTest", FALSE,
               SetScissorTest(Begin, enable, rect, borderInclusive), {}, {})

DoSetViewport(rects) ==
    \E rect \in rects :
        Setter("SetViewport", FALSE, SetViewport(Begin, rect), {}, {})

DoSetTexture(units, textures) ==
    \E index \in units, texture \in textures :
        SetterOf("SetTexture",
                 ULess(index, MAX_TEXTURE_UNITS) /\ texture = g.textures_[index],
                 SetTexture(Begin, index, texture), {index}, {}, <<index, texture>>, TRUE)

\* textures without a render surface
DoReleaseTexture(textures) ==
    \E texture \in textures :
        SetterOf("ReleaseTexture", \A i \in TextureUnits : g.textures_[i] # texture,
                 ReleaseTexture(Begin, texture, 0),
                 {i \in TextureUnits : g.textures_[i] = texture}, {}, <<texture>>, TRUE)

DoSetTextureParametersDirty ==
    Setter("SetTextureParametersDirty", FALSE, SetTextureParametersDirty(Begin), {}, {})

DoSetRenderTarget(slots, surfaces) ==
    \E index \in slots, renderTarget \in surfaces :
        SetterOf("SetRenderTarget",
                 ULess(index, MAX_RENDERTARGETS) /\ renderTarget = g.renderTargets_[index],
                 SetRenderTarget(Begin, index, renderTarget), {}, {},
                 <<index, renderTarget>>, TRUE)

DoSetDepthStencil(surfaces) ==
    \E depthStencil \in surfaces :
        Setter("SetDepthStencil", depthStencil = g.depthStencil_,
               SetDepthStencil(Begin, depthStencil), {}, {})

DoSetDepthStencilTexture(textures) ==
    \E texture \in textures :
        Setter("SetDepthStencilTexture",
               (IF texture # NULL THEN RenderSurfaceOf(texture) ELSE NULL) = g.depthStencil_,
               SetDepthStencilTexture(Begin, texture), {}, {})

\* the buffers and offsets SetVertexBuffers records for its arguments
RecordedStreams(buffers, instanceOffset) ==
    [i \in Streams |->
        IF i < Len(buffers) /\ buffers[i + 1] # NULL
        THEN <<buffers[i + 1],
               IF HasInstanceData(buffers[i + 1])
               THEN instanceOffset * VertexSize(buffers[i + 1]) ELSE 0>>
        ELSE <<NULL, 0>>]

DoSetVertexBuffers(bufferLists, instanceOffsets) ==
    \E buffers \in bufferLists, instanceOffset \in instanceOffsets :
        SetterOf("SetVertexBuffers",
                 /\ Len(buffers) <= MAX_VERTEX_STREAMS
                 /\ RecordedStreams(buffers, instanceOffset) =
                      [i \in Streams |-> <<g.vertexBuffers_[i], g.vertexOffsets_[i]>>],
                 SetVertexBuffers(Begin, buffers, instanceOffset), {}, {},
                 <<buffers, instanceOffset>>, SetVertexBuffersResult(buffers))

DoReleaseVertexBuffer(buffers) ==
    \E b \in buffers, data \in ParameterValues :
        SetterOf("ReleaseVertexBuffer", FALSE, ReleaseVertexBuffer(Begin, b, data, TRUE),
                 {}, {}, <<b>>, TRUE)

\* ShaderVariation::Create of a shader that compiles and declares the
\* constant buffers named names: the result is the index lines 216-217 use
\* for each of them (the arrays hold MAX_SHADER_PARAMETER_GROUPS elements)
DoCreate(types, nameLists) ==
    \E type \in types, names \in nameLists :
        SetterOf("Create", FALSE, Begin, {}, {}, <<type, names>>,
                 AssignParameterGroups(type, names))

DoRelease(shaders) ==
    \E sh \in shaders :
        SetterOf("Release", FALSE, Release(Begin, sh), {}, {}, <<sh>>, TRUE)

DoSetDataRange(buffers, starts, counts, mappeds) ==
    \E b \in buffers, data \in ParameterValues, start \in starts, count \in counts,
       mapped \in mappeds, returned \in BOOLEAN :
        SetterOf("SetDataRange", FALSE,
                 [Begin EXCEPT !.bufferObjects[b] =
                    SetDataRange(@, b, data, start, count, FALSE, mapped)],
                 {}, {}, <<b, start, count>>,
                 SetDataRangeResult(b, start, count, mapped, returned))

DoLock(buffers, starts, counts, mappeds) ==
    \E b \in buffers, start \in starts, count \in counts, mapped \in mappeds :
        SetterOf("Lock", FALSE,
                 [Begin EXCEPT !.bufferObjects[b] = Lock(@, b, start, count, mapped)],
                 {}, {}, <<b, start, count>>,
                 LockResult(g.bufferObjects[b], b, start, count, mapped))

DoUnlock(buffers, mappeds) ==
    \E b \in buffers, data \in ParameterValues, mapped \in mappeds :
        SetterOf("Unlock", FALSE,
                 [Begin EXCEPT !.bufferObjects[b] = Unlock(@, b, data, mapped)],
                 {}, {}, <<b>>, TRUE)

DoSetIndexBuffer(buffers) ==
    \E buffer \in buffers :
        Setter("SetIndexBuffer", buffer = g.indexBuffer_, SetIndexBuffer(Begin, buffer), {}, {})

DoSetShaders(vertexShaders, pixelShaders, createds) ==
    \E vs \in vertexShaders, ps \in pixelShaders, created \in createds :
        SetterOf("SetShaders", vs = g.vertexShader_ /\ ps = g.pixelShader_,
                 SetShaders(Begin, vs, ps, created), {}, {}, <<vs, ps>>, TRUE)

\* the constant buffer SetShaderParameter writes for param, none when the
\* bound program has no such parameter
ParameterBuffers(s, param) ==
    IF s.shaderProgram_ = 0 THEN {}
    ELSE {q.bufferPtr_ : q \in {r \in s.shaderPrograms_[s.shaderProgram_].parameters_ :
                                    r.name = param}}

DoSetShaderParameter(params, values) ==
    \E param \in params, data \in values :
        Setter("SetShaderParameter", FALSE, SetShaderParameter(Begin, param, data),
               {}, ParameterBuffers(g, param))

\* GetOrCreateConstantBuffer(type, index, size) called from outside
DoGetOrCreateConstantBuffer(types, indices, sizes, createds) ==
    \E type \in types, index \in indices, size \in sizes, created \in createds :
        /\ g' = GetOrCreateConstantBuffer(Begin, type, index, size, created)
        /\ call' = [op |-> "GetOrCreateConstantBuffer", same |-> FALSE, accepted |-> TRUE,
                    mapped |-> TRUE, units |-> {}, empty |-> size = 0,
                    before |-> InitHist, draw |-> NoDraw, args |-> <<type, index, size>>,
                    result |-> ConstantBufferFor(g, type, index, size)]
        /\ hist' = [hist EXCEPT
                        !.calls = @ + 1,
                        !.requests = @ \cup {<<<<type, index, size>>,
                                               ConstantBufferFor(g, type, index, size)>>}]

DoDraw(types, vertexCounts, mappeds) ==
    \E type \in types, vertexCount \in vertexCounts, mapped \in mappeds :
        DrawCall("Draw", mapped, vertexCount = 0, Draw(Begin, type, 0, vertexCount, mapped),
                 DrawArgs(type, vertexCount, 1))

DoDrawIndexed(types, indexCounts, vertexCounts, mappeds) ==
    \E type \in types, indexCount \in indexCounts, vertexCount \in vertexCounts,
       mapped \in mappeds :
        /\ g.indexBuffer_ # NULL \/ vertexCount = 0 \/ g.shaderProgram_ = 0
        /\ DrawCall("DrawIndexed", mapped, vertexCount = 0,
                    DrawIndexed(Begin, type, 0, indexCount, 0, vertexCount, mapped),
                    DrawArgs(type, indexCount, 1))

DoDrawInstanced(types, indexCounts, instanceCounts, mappeds) ==
    \E type \in types, indexCount \in indexCounts, instanceCount \in instanceCounts,
       mapped \in mappeds :
        /\ g.indexBuffer_ # NULL \/ indexCount = 0 \/ instanceCount = 0
           \/ g.shaderProgram_ = 0
        /\ DrawCall("DrawInstanced", mapped, indexCount = 0 \/ instanceCount = 0,
                    DrawInstanced(Begin, type, 0, indexCount, 0, 3, instanceCount, mapped),
                    DrawArgs(type, indexCount, instanceCount))

-----------------------------------------------------------------------------
(* Pipeline cache determinism                                              *)

\* depth bias 2^-16 (256 units of 2^-24): 256 with 24 depth bits, 1 with 16
DepthBiasValues == {0, 256}

NextDepthBias ==
    \/ /\ hist.calls < MaxBiasCalls
       /\ \/ DoSetShaders({"vsA"}, {"psA"}, {TRUE})
          \/ DoSetDepthBias(DepthBiasValues, {0})
          \/ DoSetCullMode({CULL_CW})
          \/ DoSetDepthStencil({NULL, "rsD16"})
          \/ DoSetDepthStencilTexture({"texD16"})
    \/ DoDraw({TRIANGLE_LIST}, {0, 3}, {TRUE})

SpecDepthBias == Init /\ [][NextDepthBias]_vars

\* C1: two accepted draws issued with equal shaders, blend inputs,
\* depth/stencil inputs, rasterizer inputs (depth bits of the bound
\* depth-stencil included), vertex-declaration hash and primitive type use
\* the very same pipeline object, so that no second pipeline is ever built
\* for one combination of inputs.
C1_SameInputsSamePipeline ==
    \A a \in hist.draws, b \in hist.draws : a[1] = b[1] => a[2] = b[2]

-----------------------------------------------------------------------------
(* Pipeline cache sensitivity                                              *)

\* stencil test on, with a compare mask of all ones and of 0xff
StencilMenu ==
    {<<TRUE, CMP_ALWAYS, OP_KEEP, OP_KEEP, OP_KEEP, 0, M_MAX_UNSIGNED, M_MAX_UNSIGNED>>,
     <<TRUE, CMP_ALWAYS, OP_KEEP, OP_KEEP, OP_KEEP, 0, 255, M_MAX_UNSIGNED>>}

NextKey ==
    \/ /\ hist.calls < MaxKeyCalls
       /\ \/ DoSetShaders({"vsA"}, {"psA", "psB"}, {TRUE})
          \/ DoSetCullMode({CULL_CCW, CULL_CW})
          \/ DoSetStencilTest(StencilMenu)
          \/ DoSetVertexBuffers({<<>>, <<"vbA">>, <<"vbB">>}, {0})
    \/ DoDraw({TRIANGLE_LIST, LINE_LIST}, {3}, {TRUE})

SpecKey == Init /\ [][NextKey]_vars

\* the fields the pipeline key is made of, depth bias apart
ListedFields ==
    {"vertexShader", "pixelShader", "blendMode", "colorWrite", "alphaToCoverage",
     "depthTest", "depthWrite", "stencilTest", "stencilTestMode", "stencilPass",
     "stencilFail", "stencilZFail", "stencilCompareMask", "stencilWriteMask",
     "cullMode", "fillMode", "scissorTest", "lineAntiAlias", "vertexDeclaration",
     "primitiveType"}

Differing(a, b) == {f \in DOMAIN a : a[f] # b[f]}

\* pipelines the last call built
Builds(s) == Cardinality({i \in 1..Len(s.log) : s.log[i].op = "CreateGraphicsPipelineState"})

AcceptedDraw == call.op \in {"Draw", "DrawIndexed", "DrawInstanced"} /\ call.accepted

\* the last call is an accepted draw that used exactly one listed field with
\* a value other than the one the accepted draw before it used
OneFieldChanged ==
    /\ AcceptedDraw
    /\ call.before.draws # {}
    /\ Cardinality(Differing(call.before.prevFields, hist.prevFields)) = 1
    /\ Differing(call.before.prevFields, hist.prevFields) \subseteq ListedFields

\* what a field's value contributes to the key: the low 8 bits of a stencil mask
Contribution(fields) ==
    [fields EXCEPT !.stencilCompareMask = @ % 256, !.stencilWriteMask = @ % 256]

\* the one differing field contributes differently, and a vertex declaration
\* is changed from a non-empty one to another non-empty one
ContributionChanged ==
    /\ OneFieldChanged
    /\ Differing(Contribution(call.before.prevFields), Contribution(hist.prevFields)) # {}
    /\ Differing(call.before.prevFields, hist.prevFields) = {"vertexDeclaration"}
        => /\ call.before.prevFields.vertexDeclaration # Zero64
           /\ hist.prevFields.vertexDeclaration # Zero64

\* C2 as stated: after a draw, one contributing field changed to a different
\* value makes the next draw use a different key and build exactly one new
\* pipeline.
C2_OneFieldOneBuild ==
    OneFieldChanged => hist.prevKey # call.before.prevKey /\ Builds(g) = 1

\* C2: after a draw, one contributing field changed so that its contribution
\* to the key differs (a stencil mask counts by its low 8 bits, a vertex
\* declaration when both the old and the new one are not empty) makes the
\* next draw use a different key; that draw builds exactly one pipeline when
\* no earlier draw used the key, and none when one did.
C2_OneFieldNewKey ==
    ContributionChanged =>
        /\ hist.prevKey # call.before.prevKey
        /\ Builds(g) = IF hist.prevKey \in call.before.keys THEN 0 ELSE 1

\* a changed field met a key that an earlier draw used
C2_Witness ==
    /\ ContributionChanged
    /\ Builds(g) = 0
    /\ hist.prevKey \in call.before.keys

-----------------------------------------------------------------------------
(* Texture redirection                                                     *)

NextRedirect ==
    \/ /\ hist.calls < MaxRedirectCalls
       /\ \/ DoSetShaders({"vsA"}, {"psB"}, {TRUE})
          \/ DoSetTexture({0}, {NULL, "texA", "texB"})
          \/ DoSetRenderTarget({0}, {NULL, "rsA", "rsB"})
    \/ DoDraw({TRIANGLE_LIST}, {3}, {TRUE})

SpecRedirect == Init /\ [][NextRedirect]_vars

\* the views the shader variables of the current pipeline hold
BoundViews(s) ==
    {s.pipelines[s.currentPipelineState_].variables[e] :
        e \in DOMAIN s.pipelines[s.currentPipelineState_].variables}

\* C3: after a draw accepted while the render target of slot 0 has parent
\* texture T, no shader variable of the pipeline the draw used holds the
\* shader-resource view of T.
C3_NoRenderTargetView ==
    AcceptedDraw /\ g.renderTargets_[0] # NULL
        => ShaderResourceViewOf(ParentTexture(g.renderTargets_[0])) \notin BoundViews(g)

-----------------------------------------------------------------------------
(* Constant-buffer flush before draw                                       *)

\* the device may fail to create a buffer and to map one
NextFlush ==
    \/ /\ hist.calls < MaxFlushCalls
       /\ \/ DoSetShaders({"vsA"}, {"psA", "psB"}, BOOLEAN)
          \/ DoSetShaderParameter({"ViewProj", "MatDiffColor", "ElapsedTime"}, ParameterValues)
    \/ DoDraw({TRIANGLE_LIST}, {0, 3}, BOOLEAN)

SpecFlush == Init /\ [][NextFlush]_vars

\* C4: when a draw command is issued, every constant buffer written since
\* the draw before it holds its shadow data in its device buffer and is not
\* dirty, and the list of dirty constant buffers is empty.
C4_FlushedBeforeDraw ==
    AcceptedDraw =>
        /\ \A b \in call.before.written :
                /\ g.constantBuffers[b].object_
                /\ g.constantBuffers[b].deviceData = g.constantBuffers[b].shadowData_
                /\ ~g.constantBuffers[b].dirty_
        /\ g.dirtyConstantBuffers_ = <<>>

-----------------------------------------------------------------------------
(* Idempotent dirty tracking for value state                               *)

NextValue ==
    \/ /\ hist.calls < MaxValueCalls
       /\ \/ DoSetShaders({"vsA"}, {"psA"}, {TRUE})
          \/ DoSetBlendMode({BLEND_REPLACE, BLEND_ADD}, {FALSE})
          \/ DoSetColorWrite
          \/ DoSetCullMode({CULL_CCW, CULL_CW})
          \/ DoSetDepthBias(DepthBiasValues, {0})
          \/ DoSetDepthTest({CMP_ALWAYS, CMP_LESSEQUAL})
          \/ DoSetDepthWrite
          \/ DoSetFillMode({FILL_SOLID, FILL_WIREFRAME})
          \/ DoSetLineAntiAlias
          \/ DoSetStencilTest(StencilMenu \cup {StencilArgs(g)})
    \/ DoDraw({TRIANGLE_LIST}, {3}, {TRUE})

SpecValue == Init /\ [][NextValue]_vars

ValueSetters ==
    {"SetBlendMode", "SetColorWrite", "SetCullMode", "SetDepthBias", "SetDepthTest",
     "SetDepthWrite", "SetFillMode", "SetLineAntiAlias", "SetStencilTest"}

\* C5: a value setter called with exactly the values that are recorded
\* leaves every recorded value and every dirty flag as it was, and calls
\* the device for nothing.
C5_SameValueNoChange ==
    [][(call'.op \in ValueSetters /\ call'.same) => g' = Begin]_vars

\* a value setter was given the recorded values after a draw had cleaned the
\* blend, depth, rasterizer and render-target flags
C5_Witness ==
    /\ call.op \in ValueSetters /\ call.same
    /\ hist.draws # {}
    /\ ~g.blendStateDirty_ /\ ~g.depthStateDirty_
    /\ ~g.rasterizerStateDirty_ /\ ~g.renderTargetsDirty_

-----------------------------------------------------------------------------
(* Idempotent dirty tracking for object references                         *)

NextReference ==
    \/ /\ hist.calls < MaxReferenceCalls
       /\ \/ DoSetShaders({"vsA"}, {"psA"}, {TRUE})
          \/ DoSetTexture({0, 2}, {"texA", "texB"})
          \/ DoSetTextureParametersDirty
          \/ DoSetRenderTarget({0}, {NULL, "rsB"})
          \/ DoSetDepthStencil({NULL, "rsD16"})
          \/ DoSetDepthStencilTexture({NULL, "texD16"})
          \/ DoSetVertexBuffers({<<"vbA">>, <<"vbA", "vbI">>}, {0, 1})
    \/ DoDraw({TRIANGLE_LIST}, {3}, {TRUE})

SpecReference == Init /\ [][NextReference]_vars

ReferenceSetters ==
    {"SetTexture", "SetRenderTarget", "SetDepthStencil", "SetDepthStencilTexture",
     "SetVertexBuffers"}

\* the dirty flags and dirty ranges of textures, vertex buffers and render
\* targets, and the vertex-declaration and rasterizer flags
ReferenceDirt(s) ==
    <<s.texturesDirty_, s.firstDirtyTexture_, s.lastDirtyTexture_,
      s.firstDirtyVB_, s.lastDirtyVB_, s.vertexDeclarationDirty_,
      s.renderTargetsDirty_, s.rasterizerStateDirty_>>

\* C6 as stated: a reference setter given what is bound already sets no
\* dirty flag and changes no dirty range.
C6_SameReferenceNoDirt ==
    [][(call'.op \in ReferenceSetters /\ call'.same)
            => ReferenceDirt(g') = ReferenceDirt(g)]_vars

\* SetTexture is given a texture whose sampler parameters are up to date
ParametersClean(s, units) ==
    \A i \in units : s.textures_[i] # NULL => ~GetParametersDirty(s, s.textures_[i])

\* C6: SetTexture given the texture its unit holds, when that texture's
\* sampler parameters are not dirty, SetRenderTarget given the surface its
\* slot holds, SetDepthStencil given the depth-stencil bound and
\* SetVertexBuffers given the buffers and offsets bound set no dirty flag and
\* change no dirty range and no binding; the Texture2D overload of
\* SetDepthStencil sets the rasterizer flag and changes nothing else.
C6_SameReferenceNoChange ==
    [][(call'.op \in ReferenceSetters /\ call'.same)
            => /\ call'.op = "SetTexture" /\ ParametersClean(g, call'.units) => g' = Begin
               /\ call'.op \in {"SetRenderTarget", "SetDepthStencil", "SetVertexBuffers"}
                    => g' = Begin
               /\ call'.op = "SetDepthStencilTexture"
                    => g' = [Begin EXCEPT !.rasterizerStateDirty_ = TRUE]]_vars

\* the Texture2D overload was given the bound depth-stencil while the
\* rasterizer flag was clean
C6_Witness ==
    /\ call.op = "SetDepthStencilTexture" /\ call.same
    /\ g.depthStencil_ # NULL
    /\ hist.draws # {} /\ hist.texChanged = {} /\ hist.vbChanged = {}
    /\ ~g.renderTargetsDirty_ /\ ~g.texturesDirty_

-----------------------------------------------------------------------------
(* Dirty-range texture commit                                              *)

\* psA samples units 0, 2, 3, 5 and 6; a draw of lines uses another pipeline
\* than a draw of triangles
NextTexture ==
    \/ /\ hist.calls < MaxTextureCalls
       /\ \/ DoSetShaders({"vsA"}, {"psA"}, {TRUE})
          \/ DoSetTexture({0, 2, 5}, {"texA", "texC"})
          \/ DoSetTextureParametersDirty
    \/ DoDraw({TRIANGLE_LIST, LINE_LIST}, {3}, {TRUE})

SpecTexture == Init /\ [][NextTexture]_vars

Lowest(S) == CHOOSE x \in S : \A y \in S : x <= y
Highest(S) == CHOOSE x \in S : \A y \in S : y <= x

\* the units whose shader variable the last call updated
UpdatedUnits(s) == {s.log[i].unit : i \in {j \in 1..Len(s.log) : s.log[j].op = "Set"}}

\* C7 as stated: when exactly two units a < b were changed since the draw
\* before, the draw updates variables of units a..b only.
C7_OnlyChangedRange ==
    [][(AcceptedDraw' /\ hist.draws # {} /\ Cardinality(hist.texChanged) = 2)
            => UpdatedUnits(g') \subseteq Lowest(hist.texChanged)..Highest(hist.texChanged)]_vars

\* C7: when the bindings of some units, the lowest a and the highest b, were
\* changed since the draw before, SetTexture was called for no unit outside
\* a..b, and the draw keeps the pipeline of the draw before, the draw updates
\* variables of units a..b only.
C7_OnlyChangedRangeSamePipeline ==
    [][(/\ AcceptedDraw' /\ hist.draws # {}
        /\ hist.texChanged # {}
        /\ hist.texTouched \subseteq Lowest(hist.texChanged)..Highest(hist.texChanged)
        /\ g'.currentPipelineState_ = g.currentPipelineState_)
            => UpdatedUnits(g') \subseteq Lowest(hist.texChanged)..Highest(hist.texChanged)]_vars

\* units 2 and 5 were changed and updated while unit 0, bound and mapped,
\* was left alone
C7_Witness ==
    /\ AcceptedDraw /\ call.before.draws # {}
    /\ call.before.texChanged = {2, 5}
    /\ UpdatedUnits(g) = {2, 5}
    /\ g.shaderResourceViews_[0] # NULL

-----------------------------------------------------------------------------
(* Rebind of changed vertex streams                                        *)

\* one buffer more than there are vertex streams
TooManyBuffers == <<"vbB", "vbA", "vbI", "vbA", "vbB">>

\* vsBad does not compile: no program is bound with it and draws are rejected
NextStreams ==
    \/ /\ hist.calls < MaxStreamCalls
       /\ \/ DoSetShaders({"vsA", "vsBad"}, {"psA"}, {TRUE})
          \/ DoSetVertexBuffers({<<>>, <<"vbA">>, <<"vbA", "vbI">>, <<NULL, "vbB">>,
                                 TooManyBuffers}, {0, 1})
    \/ DoDraw({TRIANGLE_LIST}, {0, 3}, {TRUE})

SpecStreams == Init /\ [][NextStreams]_vars

\* the device SetVertexBuffers call of the last call
StreamBind(s) == s.log[FirstCall(s, "SetVertexBuffers")]

\* C8: an accepted draw hands every stream changed since the last device
\* bind to the device, inside the one range of its SetVertexBuffers call
\* and with the buffer and offset that are recorded for the stream.
C8_ChangedStreamsRebound ==
    AcceptedDraw =>
        \A i \in call.before.vbChanged :
            /\ FirstCall(g, "SetVertexBuffers") # 0
            /\ i \in StreamBind(g).first..(StreamBind(g).first + StreamBind(g).count - 1)
            /\ StreamBind(g).buffers[i] = g.vertexBuffers_[i]
            /\ StreamBind(g).offsets[i] = g.vertexOffsets_[i]

\* after a first bind the offset of stream 1 alone was changed, and the next
\* accepted draw handed the range starting at stream 1 to the device
C8_Witness ==
    /\ AcceptedDraw /\ call.before.draws # {}
    /\ call.before.vbChanged = {1}
    /\ FirstCall(g, "SetVertexBuffers") # 0
    /\ StreamBind(g).first = 1
    /\ StreamBind(g).offsets[1] # 0

-----------------------------------------------------------------------------
(* Ordering inside one accepted draw call                                  *)

NextOrder ==
    \/ /\ hist.calls < MaxOrderCalls
       /\ \/ DoSetShaders({"vsA"}, {"psA", "psB"}, BOOLEAN)
          \/ DoSetShaderParameter({"ViewProj", "MatDiffColor"}, {1})
          \/ DoSetTexture({0}, {"texA"})
          \/ DoSetRenderTarget({0}, {NULL, "rsB"})
          \/ DoSetIndexBuffer({"ibA"})
    \/ DoDraw({TRIANGLE_LIST}, {3}, BOOLEAN)
    \/ DoDrawIndexed({TRIANGLE_LIST}, {3}, {3}, {TRUE})
    \/ DoDrawInstanced({LINE_LIST}, {2}, {2}, {TRUE})

SpecOrder == Init /\ [][NextOrder]_vars

DrawCommands == {"Draw", "DrawIndexed"}

\* the dirty constant buffers of s that have a device buffer
DirtyDeviceBuffers(s) ==
    {s.dirtyConstantBuffers_[i] : i \in {j \in 1..Len(s.dirtyConstantBuffers_) :
        /\ s.constantBuffers[s.dirtyConstantBuffers_[j]].dirty_
        /\ s.constantBuffers[s.dirtyConstantBuffers_[j]].object_}}

\* the device calls of the last call are in the order of a draw: render
\* targets, pipeline build, pipeline set, variables, commit, constant
\* buffers, and the one draw command last
OrderedLog(s) ==
    /\ Len(s.log) > 0
    /\ \A i \in 1..Len(s.log) : s.log[i].op \in DrawCommands <=> i = Len(s.log)
    /\ FirstCall(s, "SetPipelineState") # 0
    /\ FirstCall(s, "SetPipelineState") = LastCall(s, "SetPipelineState")
    /\ FirstCall(s, "CommitShaderResources") # 0
    /\ LastCall(s, "SetRenderTargets") < FirstCall(s, "SetPipelineState")
    /\ FirstCall(s, "CreateGraphicsPipelineState") # 0
        => /\ LastCall(s, "SetRenderTargets") < FirstCall(s, "CreateGraphicsPipelineState")
           /\ LastCall(s, "CreateGraphicsPipelineState") < FirstCall(s, "SetPipelineState")
    /\ LastCall(s, "SetPipelineState") < FirstCall(s, "CommitShaderResources")
    /\ FirstCall(s, "Set") # 0
        => /\ LastCall(s, "SetPipelineState") < FirstCall(s, "Set")
           /\ LastCall(s, "Set") < FirstCall(s, "CommitShaderResources")
    /\ LastCall(s, "CommitShaderResources") < Len(s.log)
    /\ LastCall(s, "MapBuffer") < Len(s.log)

-----------------------------------------------------------------------------
(* Rejected draws                                                          *)

NextReject ==
    \/ /\ hist.calls < MaxRejectCalls
       /\ \/ DoSetShaders({"vsA", "vsBad"}, {"psA"}, {TRUE})
          \/ DoSetShaderParameter({"ViewProj"}, {1})
          \/ DoSetCullMode({CULL_CW})
          \/ DoSetTexture({0}, {"texA"})
          \/ DoSetVertexBuffers({<<"vbA">>}, {0})
          \/ DoSetIndexBuffer({"ibA"})
    \/ DoDraw({TRIANGLE_LIST}, {0, 3}, {TRUE})
    \/ DoDrawIndexed({TRIANGLE_LIST}, {3}, {0, 3}, {TRUE})
    \/ DoDrawInstanced({TRIANGLE_LIST}, {0, 3}, {0, 1}, {TRUE})

SpecReject == Init /\ [][NextReject]_vars

DrawCalls == {"Draw", "DrawIndexed", "DrawInstanced"}

\* C10: a draw call given a zero vertex count (for DrawInstanced a zero
\* index or instance count), or made while no shader program is bound,
\* calls the device for nothing and leaves the counters, every tracked
\* value, dirty flag and dirty range and the pipeline cache as they were.
C10_RejectedDrawNoEffect ==
    [][(call'.op \in DrawCalls /\ (call'.empty \/ g.shaderProgram_ = 0))
            => g' = Begin /\ hist' = hist]_vars

\* a draw was refused for a zero count while a program was bound, state
\* was dirty and the pipeline cache held a pipeline
C10_Witness ==
    /\ call.op \in DrawCalls /\ call.empty
    /\ g.shaderProgram_ # 0
    /\ g.pipelines # <<>>
    /\ g.rasterizerStateDirty_
    /\ g.log = <<>>

-----------------------------------------------------------------------------
(* Primitive counting                                                      *)

NextCount ==
    \/ /\ hist.calls < MaxCountCalls
       /\ \/ DoSetShaders({"vsA"}, {"psA"}, {TRUE})
          \/ DoSetFillMode({FILL_SOLID, FILL_POINT})
          \/ DoSetIndexBuffer({"ibA"})
    \/ DoDraw(PrimitiveTypes, {1, 9}, {TRUE})
    \/ DoDrawIndexed({LINE_STRIP}, {2}, {3}, {TRUE})
    \/ DoDrawInstanced({TRIANGLE_STRIP, TRIANGLE_FAN}, {5}, {2}, {TRUE})

SpecCount == Init /\ [][NextCount]_vars

\* the primitives of n elements of a type, as counted over the integers
PrimitivesOf(n, type) ==
    CASE type = TRIANGLE_LIST -> n \div 3
      [] type = LINE_LIST -> n \div 2
      [] type = POINT_LIST -> n
      [] type = TRIANGLE_STRIP -> n - 2
      [] type = LINE_STRIP -> n - 1
      [] type = TRIANGLE_FAN -> 0

\* a 32-bit unsigned counter, held as a two's-complement integer, went from
\* before to after by exactly d: the sum is the counter's value only when
\* it did not wrap around
AddsExactly(before, after, d) ==
    /\ after = before + d
    /\ (before < 0) <=> (after < 0)

\* C11: every accepted draw of n elements with primitive type T adds
\* exactly 1 to the batch counter and adds to the primitive counter n/3
\* for TRIANGLE_LIST, n/2 for LINE_LIST, n for POINT_LIST, n-2 for
\* TRIANGLE_STRIP, n-1 for LINE_STRIP and 0 for TRIANGLE_FAN, times the
\* instance count, T being POINT_LIST when the fill mode is FILL_POINT.
C11_PrimitiveCount ==
    [][AcceptedDraw' =>
        /\ g'.numBatches_ = g.numBatches_ + 1
        /\ AddsExactly(g.numPrimitives_, g'.numPrimitives_,
                       call'.draw.instances
                       * PrimitivesOf(call'.draw.count,
                                      IF g.fillMode_ = FILL_POINT
                                      THEN POINT_LIST ELSE call'.draw.type))]_vars

\* the same for draws that hand over at least two elements
C11_PrimitiveCountOfTwoOrMore ==
    [][(AcceptedDraw' /\ call'.draw.count >= 2 /\ g.numPrimitives_ >= 0) =>
        /\ g'.numBatches_ = g.numBatches_ + 1
        /\ AddsExactly(g.numPrimitives_, g'.numPrimitives_,
                       call'.draw.instances
                       * PrimitivesOf(call'.draw.count,
                                      IF g.fillMode_ = FILL_POINT
                                      THEN POINT_LIST ELSE call'.draw.type))]_vars

-----------------------------------------------------------------------------
(* Constant-buffer deduplication                                           *)

\* sizes a shader can ask for, 0 and 2^28 + 32 among them
BufferSizes == {0, 32, Pow2(28) + 32}

NextBuffers ==
    \/ /\ hist.calls < MaxBufferCalls
       /\ \/ DoGetOrCreateConstantBuffer({VS, PS}, {0, 1, MAX_SHADER_PARAMETER_GROUPS - 1},
                                         BufferSizes, BOOLEAN)
          \/ DoSetShaders({"vsA"}, {"psA"}, {TRUE})
    \/ DoDraw({TRIANGLE_LIST}, {3}, {TRUE})

SpecBuffers == Init /\ [][NextBuffers]_vars

\* C12: two calls to GetOrCreateConstantBuffer return the same buffer
\* exactly when their (stage, slot, size) triples are equal: distinct
\* triples never share a buffer and a repeated triple never allocates a
\* second one.
C12_SameBufferIffSameTriple ==
    \A q, r \in hist.requests : (q[2] = r[2]) <=> (q[1] = r[1])

\* the same for sizes below 2^28
C12_SameBufferIffSameSmallTriple ==
    \A q, r \in hist.requests :
        (q[1][3] < Pow2(28) /\ r[1][3] < Pow2(28)) => ((q[2] = r[2]) <=> (q[1] = r[1]))

-----------------------------------------------------------------------------
(* Zero-sized constant buffers                                             *)

\* the constant buffers of t that s does not hold
NewBuffers(s, t) == (1..Len(t.constantBuffers)) \ (1..Len(s.constantBuffers))

\* C13: requesting a constant buffer of size 0 fails without creating a
\* device object: no device buffer is created and the requester receives a
\* failure result (the null pointer) instead of a constant buffer.
C13_ZeroSizeFails ==
    [][(call'.op = "GetOrCreateConstantBuffer" /\ call'.empty) =>
        /\ \A b \in NewBuffers(g, g') : ~g'.constantBuffers[b].object_
        /\ call'.result = 0]_vars

\* what a request of size 0 does: it is handed a constant buffer of size 0
\* without device object, which every later request of size 0 for the same
\* stage and slot is handed again
C13_ZeroSizeHandsEmptyBuffer ==
    [][(call'.op = "GetOrCreateConstantBuffer" /\ call'.empty) =>
        /\ \A b \in NewBuffers(g, g') : ~g'.constantBuffers[b].object_
        /\ call'.result \in 1..Len(g'.constantBuffers)
        /\ g'.constantBuffers[call'.result].size_ = 0
        /\ ~g'.constantBuffers[call'.result].object_]_vars

-----------------------------------------------------------------------------
(* SetVertexBuffers with too many buffers                                  *)

\* the last call was SetVertexBuffers with more than MAX_VERTEX_STREAMS buffers
TooManyCall == call.op = "SetVertexBuffers" /\ Len(call.args[1]) > MAX_VERTEX_STREAMS

\* what SetVertexBuffers writes
StreamFields(s) ==
    <<s.vertexBuffers_, s.implVertexBuffers_, s.vertexSizes_, s.vertexOffsets_,
      s.vertexDeclarationDirty_, s.firstDirtyVB_, s.lastDirtyVB_>>

\* C14: SetVertexBuffers with more than MAX_VERTEX_STREAMS buffers returns
\* false and leaves the stream bindings, sizes and offsets, vertexDeclarationDirty_
\* and the dirty range as they were.
C14_TooManyBuffersRejected ==
    [][TooManyCall' => /\ call'.result = FALSE
                       /\ StreamFields(g') = StreamFields(g)
                       /\ Tracked(g') = Tracked(g)
                       /\ g'.log = <<>>]_vars

\* buffers are bound and a dirty range is open when the call with too many
\* buffers is made
C14_Witness ==
    /\ TooManyCall
    /\ g.vertexBuffers_[0] = "vbA"
    /\ g.vertexBuffers_[1] = "vbI"
    /\ g.firstDirtyVB_ = 0
    /\ g.lastDirtyVB_ = 1

-----------------------------------------------------------------------------
(* Texture units and render-target slots out of range                      *)

\* indices in range, the first one out of range and the largest unsigned
NextRange ==
    \/ /\ hist.calls < MaxRangeCalls
       /\ \/ DoSetShaders({"vsA"}, {"psB"}, {TRUE})
          \/ DoSetTexture({0, MAX_TEXTURE_UNITS - 1, MAX_TEXTURE_UNITS, M_MAX_UNSIGNED},
                          {NULL, "texA", "texB"})
          \/ DoSetRenderTarget({0, MAX_RENDERTARGETS - 1, MAX_RENDERTARGETS, M_MAX_UNSIGNED},
                               {NULL, "rsA"})
    \/ DoDraw({TRIANGLE_LIST}, {3}, {TRUE})

SpecRange == Init /\ [][NextRange]_vars

\* the last call was SetTexture with a unit that does not exist
TextureOutOfRange ==
    call.op = "SetTexture" /\ ~ULess(call.args[1], MAX_TEXTURE_UNITS)

\* the last call was SetRenderTarget with a slot that does not exist
RenderTargetOutOfRange ==
    call.op = "SetRenderTarget" /\ ~ULess(call.args[1], MAX_RENDERTARGETS)

\* C15: SetTexture with an index of MAX_TEXTURE_UNITS or more and
\* SetRenderTarget with an index of MAX_RENDERTARGETS or more change nothing
\* and make no device call.
C15_OutOfRangeIndexNoOp ==
    [][(TextureOutOfRange' \/ RenderTargetOutOfRange') =>
        (Tracked(g') = Tracked(g) /\ g'.log = <<>>)]_vars

\* a texture and a render target are bound and dirty when SetTexture is
\* called with the largest unsigned index and a texture
C15_Witness ==
    /\ TextureOutOfRange
    /\ call.args = <<M_MAX_UNSIGNED, "texB">>
    /\ g.textures_[MAX_TEXTURE_UNITS - 1] = "texA"
    /\ g.renderTargets_[MAX_RENDERTARGETS - 1] = "rsA"
    /\ g.texturesDirty_
    /\ g.renderTargetsDirty_

-----------------------------------------------------------------------------
(* Release of a shader variation                                           *)

NextRelease ==
    \/ /\ hist.calls < MaxReleaseCalls
       /\ \/ DoSetShaders({"vsA", "vsB"}, {"psA"}, {TRUE})
          \/ DoRelease({"vsA", "psA"})
          \/ DoSetShaderParameter({"ViewProj"}, {1})
    \/ DoDraw({TRIANGLE_LIST}, {3}, {TRUE})

SpecRelease == Init /\ [][NextRelease]_vars

\* the pipelines of the cache of s whose key names shader sh
KeyedBy(s, sh) == {e \in s.pipelineStates_ : e[1][1] = sh \/ e[1][2] = sh}

\* the current pipeline of s was built from shader sh
CurrentBuiltFrom(s, sh) ==
    /\ s.currentPipelineState_ # 0
    /\ \/ s.pipelines[s.currentPipelineState_].vertexShader = sh
       \/ s.pipelines[s.currentPipelineState_].pixelShader = sh

\* C16: after a shader variation is released the pipeline cache holds no
\* entry keyed by that shader and the current pipeline is not one built
\* from it.
C16_ReleaseInvalidatesCache ==
    [][call'.op = "Release" =>
        /\ KeyedBy(g', call'.args[1]) = {}
        /\ ~CurrentBuiltFrom(g', call'.args[1])]_vars

\* what Release does to the cache: nothing; the entries keyed by the shader,
\* the current pipeline and the shader programs stay as they were
C16_ReleaseKeepsCache ==
    [][call'.op = "Release" =>
        /\ g'.pipelineStates_ = g.pipelineStates_
        /\ g'.pipelines = g.pipelines
        /\ g'.currentPipelineState_ = g.currentPipelineState_
        /\ g'.shaderPrograms_ = g.shaderPrograms_
        /\ g'.shaderProgram_ = g.shaderProgram_
        /\ g'.vertexShader_ = g.vertexShader_
        /\ g'.pixelShader_ = g.pixelShader_]_vars

-----------------------------------------------------------------------------
(* Ranges of vertex and index buffers                                      *)

\* 2^31 and 2^31 + 1 as 32-bit patterns
Half == MinInt
HalfPlusOne == MinInt + 1

NextLock ==
    /\ hist.calls < MaxLockCalls
    /\ \/ DoSetDataRange(BufferObjects, {0, 2, Half}, {0, 4, HalfPlusOne}, BOOLEAN)
       \/ DoLock(BufferObjects, {2, M_MAX_UNSIGNED}, {0, 2, 4}, BOOLEAN)
       \/ DoUnlock(BufferObjects, BOOLEAN)

SpecLock == Init /\ [][NextLock]_vars

\* start + count of two unsigned values is more than n, n small
Exceeds(start, count, n) ==
    \/ start < 0 \/ count < 0
    \/ start > n
    \/ count > n - start

\* the last call was Lock or SetDataRange with a range that ends after the
\* last element of the buffer
RangeError ==
    /\ call.op \in {"Lock", "SetDataRange"}
    /\ Exceeds(call.args[2], call.args[3], ElementCount)

\* the range error of the last call is one the sum start + count shows as
\* a 32-bit unsigned value
VisibleRangeError ==
    /\ call.op \in {"Lock", "SetDataRange"}
    /\ ULess(ElementCount, Add32(call.args[2], call.args[3]))

\* C17: Lock and SetDataRange of vertex and index buffers fail for every
\* start and count with start + count more than the number of elements and
\* leave the lock state, the locked range, the shadow data and the device
\* buffer as they were.
C17_RangeErrorMutatesNothing ==
    [][RangeError' => /\ call'.result = FALSE
                      /\ g'.bufferObjects = g.bufferObjects]_vars

\* the same for the ranges whose 32-bit sum start + count is more than the
\* number of elements
C17_VisibleRangeErrorMutatesNothing ==
    [][VisibleRangeError' => /\ call'.result = FALSE
                             /\ g'.bufferObjects = g.bufferObjects]_vars

-----------------------------------------------------------------------------
(* The vertex declaration hash and the slots                               *)

NextHash ==
    \/ /\ hist.calls < MaxHashCalls
       /\ \/ DoSetShaders({"vsA"}, {"psA"}, {TRUE})
          \/ DoSetVertexBuffers({<<"vbC">>, <<NULL, "vbD">>, <<"vbC", "vbD">>, <<"vbD", "vbC">>,
                                 <<"vbA", "vbB">>, <<"vbB", "vbA">>}, {0})
    \/ DoDraw({TRIANGLE_LIST}, {3}, {TRUE})

SpecHash == Init /\ [][NextHash]_vars

\* streams 0 and 1 of s hold buffers and no other stream does
TwoBound(s) ==
    /\ s.vertexBuffers_[0] # NULL /\ s.vertexBuffers_[1] # NULL
    /\ \A i \in Streams \ {0, 1} : s.vertexBuffers_[i] = NULL

\* the combined hash of a at stream 0 and b at stream 1
Combined(a, b) == Or64(GetBufferHash(a, 0), GetBufferHash(b, 1))

\* the contributions of a and b differ at stream 0 and at stream 1
ContributionsDiffer(a, b) ==
    /\ GetBufferHash(a, 0) # GetBufferHash(b, 0)
    /\ GetBufferHash(a, 1) # GetBufferHash(b, 1)

C18_HashOfBindings ==
    [][(AcceptedDraw' /\ TwoBound(g')) =>
        g'.vertexDeclarationHash_ = Combined(g'.vertexBuffers_[0], g'.vertexBuffers_[1])]_vars

\* the other half for element hashes of at most 16 bits, whose
\* contributions at streams 0 and 1 share no bit position
C18_NarrowHashSlotSensitive ==
    [][(/\ AcceptedDraw' /\ TwoBound(g')
        /\ \A i \in {0, 1} : ElementHash(g'.vertexBuffers_[i])[2] = 0
                             /\ ElementHash(g'.vertexBuffers_[i])[3] = 0
                             /\ ElementHash(g'.vertexBuffers_[i])[4] = 0
        /\ ContributionsDiffer(g'.vertexBuffers_[0], g'.vertexBuffers_[1])) =>
            g'.vertexDeclarationHash_ #
                Combined(g'.vertexBuffers_[1], g'.vertexBuffers_[0])]_vars

-----------------------------------------------------------------------------
(* The input layout of a new pipeline                                      *)

NextLayout ==
    \/ /\ hist.calls < MaxLayoutCalls
       /\ \/ DoSetShaders({"vsA"}, {"psA"}, {TRUE})
          \/ DoSetVertexBuffers({<<"vbA">>, <<"vbA", "vbB">>, <<"vbA", "vbI">>,
                                 <<"vbB", "vbA", "vbI">>, <<NULL, "vbB">>}, {0})
    \/ DoDraw({TRIANGLE_LIST, LINE_LIST}, {3}, {TRUE})

SpecLayout == Init /\ [][NextLayout]_vars

\* the last call was an accepted draw that created a pipeline
BuiltPipeline ==
    /\ AcceptedDraw
    /\ FirstCall(g, "CreateGraphicsPipelineState") # 0

\* the (semantic, index) pairs of the elements of a buffer
PairsOf(vb) ==
    {<<Elements(vb)[j].semantic_, Elements(vb)[j].index_>> : j \in 1..Len(Elements(vb))}

\* the streams of s that hold a buffer
BoundStreams(s) == {i \in Streams : s.vertexBuffers_[i] # NULL}

\* the (semantic, index) pairs of the elements of the buffers bound in s
BoundPairs(s) == UNION {PairsOf(s.vertexBuffers_[i]) : i \in BoundStreams(s)}

\* the (semantic, index) pairs of a layout
LayoutPairs(layout) ==
    {<<layout[k].HLSLSemantic, layout[k].InputIndex>> : k \in 1..Len(layout)}

\* the layout names no (semantic, index) pair twice
OnePerPair(layout) ==
    \A k, m \in 1..Len(layout) :
        (layout[k].HLSLSemantic = layout[m].HLSLSemantic
         /\ layout[k].InputIndex = layout[m].InputIndex) => k = m

\* the pipeline the last call created
Built(s) == s.pipelines[Len(s.pipelines)]

\* C19: the input layout of a pipeline built on a cache miss holds exactly
\* one element for every (semantic, index) pair of the elements of the bound
\* vertex buffers and no other element.
C19_LayoutHoldsEveryPair ==
    BuiltPipeline =>
        /\ OnePerPair(Built(g).layoutElements)
        /\ LayoutPairs(Built(g).layoutElements) = BoundPairs(g)

\* what holds of the layout: it names no pair twice and only pairs of the
\* bound buffers
C19_LayoutHoldsOnlyBoundPairs ==
    BuiltPipeline =>
        /\ OnePerPair(Built(g).layoutElements)
        /\ LayoutPairs(Built(g).layoutElements) \subseteq BoundPairs(g)

\* it holds every pair when no buffer repeats a pair of an earlier stream
C19_DisjointStreamsMerged ==
    (/\ BuiltPipeline
     /\ \A i, m \in BoundStreams(g) :
            i < m => PairsOf(g.vertexBuffers_[i]) \cap PairsOf(g.vertexBuffers_[m]) = {})
        => LayoutPairs(Built(g).layoutElements) = BoundPairs(g)

-----------------------------------------------------------------------------
(* The stencil reference value                                             *)

\* stencil tests that differ in the reference value or in the compare mode
StencilReferences ==
    {<<TRUE, mode, OP_KEEP, OP_KEEP, OP_REF, ref, M_MAX_UNSIGNED, M_MAX_UNSIGNED>> :
        mode \in {CMP_ALWAYS, CMP_EQUAL}, ref \in 0..2}

NextStencil ==
    \/ /\ hist.calls < MaxStencilCalls
       /\ \/ DoSetShaders({"vsA"}, {"psA"}, {TRUE})
          \/ DoSetStencilTest(StencilReferences)
    \/ DoDraw({TRIANGLE_LIST}, {3}, {TRUE})

SpecStencil == Init /\ [][NextStencil]_vars

\* the step is an accepted draw with the stencil test on, made with the key
\* fields of the accepted draw before it and another stencil reference
OnlyReferenceChanged ==
    /\ AcceptedDraw'
    /\ hist.draws # {}
    /\ Differing(hist.prevFields, hist'.prevFields) = {}
    /\ g'.stencilTest_
    /\ g'.stencilRef_ # hist.prevRef

\* C20: when SetStencilTest changes nothing but the stencil reference
\* between two draws, the second draw creates a new pipeline instead of
\* using the cached one again.
C20_ReferenceRebuildsPipeline ==
    [][OnlyReferenceChanged => Builds(g') >= 1]_vars

\* what the second draw does: it looks the unchanged key up, finds the
\* pipeline of the first draw and keeps it, and creates nothing
C20_ReferenceKeepsPipeline ==
    [][OnlyReferenceChanged =>
        /\ Builds(g') = 0
        /\ g'.pipelines = g.pipelines
        /\ g'.currentPipelineState_ = g.currentPipelineState_]_vars

-----------------------------------------------------------------------------
(* Shader variables and the bound textures                                 *)

\* psA samples units 0, 2, 3, 5 and 6 and psB units 0 and 1; texC has no
\* render surface
NextMirror ==
    \/ /\ hist.calls < MaxMirrorCalls
       /\ \/ DoSetShaders({"vsA"}, {"psA", "psB"}, {TRUE})
          \/ DoSetTexture({0, 2}, {NULL, "texA", "texC"})
          \/ DoReleaseTexture({"texC"})
    \/ DoDraw({TRIANGLE_LIST}, {3}, {TRUE})

SpecMirror == Init /\ [][NextMirror]_vars

\* the texture map entries of the current pipeline
MapEntries(s) == 1..Len(s.pipelines[s.currentTextureMap_].textureMap)

\* the unit of entry e and the view its shader variable holds
EntryUnit(s, e) == s.pipelines[s.currentTextureMap_].textureMap[e]
EntryView(s, e) == s.pipelines[s.currentTextureMap_].variables[e]

\* C21: after the texture commit of an accepted draw, the shader variable of
\* every texture map entry of the current pipeline holds the view recorded
\* for the entry's unit, and holds no view when the unit is unbound.
C21_VariablesMirrorUnits ==
    AcceptedDraw =>
        \A e \in MapEntries(g) : EntryView(g, e) = g.shaderResourceViews_[EntryUnit(g, e)]

\* what the commit keeps: the variable of every entry whose unit has a view
\* recorded holds that view
C21_BoundUnitsMirrored ==
    AcceptedDraw =>
        \A e \in MapEntries(g) :
            g.shaderResourceViews_[EntryUnit(g, e)] # NULL
                => EntryView(g, e) = g.shaderResourceViews_[EntryUnit(g, e)]

\* a draw after which the variable of an unbound unit still holds a view
C21_StaleVariable ==
    /\ AcceptedDraw
    /\ \E e \in MapEntries(g) :
            /\ g.shaderResourceViews_[EntryUnit(g, e)] = NULL
            /\ EntryView(g, e) # NULL

-----------------------------------------------------------------------------
(* The steps of one draw                                                   *)

NextSteps ==
    \/ /\ hist.calls < MaxStepCalls
       /\ \/ DoSetShaders({"vsA"}, {"psA", "psB"}, {TRUE})
          \/ DoSetVertexBuffers({<<"vbA">>, <<"vbA", "vbI">>}, {0})
          \/ DoSetTexture({0}, {"texA", "texC"})
          \/ DoSetShaderParameter({"ViewProj", "MatDiffColor"}, {1})
    \/ DoDraw({TRIANGLE_LIST}, {3}, {TRUE})

SpecSteps == Init /\ [][NextSteps]_vars

\* every device call named a of the last call was made before every device
\* call named b
Before(s, a, b) ==
    (LastCall(s, a) # 0 /\ FirstCall(s, b) # 0) => LastCall(s, a) < FirstCall(s, b)

\* the texture variables are set after the pipeline was set, the shader
\* resources are committed after them, the constant buffers are mapped after
\* that, and the draw command is the last device call
CommitSteps(s) ==
    /\ FirstCall(s, "SetPipelineState") # 0
    /\ FirstCall(s, "CommitShaderResources") # 0
    /\ Before(s, "CreateGraphicsPipelineState", "SetPipelineState")
    /\ Before(s, "SetPipelineState", "Set")
    /\ Before(s, "Set", "CommitShaderResources")
    /\ Before(s, "SetPipelineState", "CommitShaderResources")
    /\ Before(s, "CommitShaderResources", "MapBuffer")
    /\ Len(s.log) > 0
    /\ \A i \in 1..Len(s.log) : s.log[i].op \in DrawCommands <=> i = Len(s.log)

\* C22 as stated: within one accepted draw the dirty vertex streams are
\* handed to the device after the pipeline was resolved and before the
\* texture variables are set, which are set before the constant buffers are
\* flushed and the draw command is issued.
C22_BindAfterResolve ==
    [][AcceptedDraw' =>
        /\ Before(g', "CreateGraphicsPipelineState", "SetVertexBuffers")
        /\ Before(g', "SetVertexBuffers", "Set")
        /\ CommitSteps(g')]_vars

\* C22: within one accepted draw the dirty vertex streams are handed to the
\* device before the pipeline is looked up or built and set; the texture
\* variables are set after the pipeline was set and before the shader
\* resources are committed, the constant buffers are flushed after that,
\* and the draw command comes last.
C22_BindBeforeResolve ==
    [][AcceptedDraw' =>
        /\ ULess(g.firstDirtyVB_, M_MAX_UNSIGNED) /\ g.vertexDeclarationDirty_
                => FirstCall(g', "SetVertexBuffers") # 0
        /\ Before(g', "SetVertexBuffers", "CreateGraphicsPipelineState")
        /\ Before(g', "SetVertexBuffers", "SetPipelineState")
        /\ CommitSteps(g')]_vars

\* a draw handed vertex streams to the device, built a pipeline, set a
\* texture variable and mapped a constant buffer
C22_Witness ==
    /\ AcceptedDraw
    /\ FirstCall(g, "SetVertexBuffers") # 0
    /\ FirstCall(g, "CreateGraphicsPipelineState") # 0
    /\ FirstCall(g, "Set") # 0
    /\ FirstCall(g, "MapBuffer") # 0

-----------------------------------------------------------------------------
(* Parameter groups of the constant buffers of a shader                    *)

\* names of constant buffers: some of each table and some of neither
TableNames == {"FrameVS", "MaterialVS", "ObjectVS", "CameraPS", "MaterialPS"}
CustomNames == <<"CustomA", "CustomB", "CustomC">>

\* the names in the list s
NamesIn(s) == {s[j] : j \in 1..Len(s)}

\* how many custom names the list s holds
CustomsIn(s) == Cardinality({i \in 1..Len(CustomNames) : CustomNames[i] \in NamesIn(s)})

\* the lists of S with one more name; custom names are interchangeable and
\* come in the order of CustomNames
Extended(S) ==
    {Append(s, x) : s \in S, x \in TableNames} \cup
    {Append(s, CustomNames[CustomsIn(s) + 1]) : s \in {t \in S : CustomsIn(t) < Len(CustomNames)}}

Distinct(S) == {s \in S : Cardinality(NamesIn(s)) = Len(s)}

\* the lists of distinct names up to n longer than the ones of last
RECURSIVE ListsFrom(_, _, _)
ListsFrom(all, last, n) ==
    IF n = 0 THEN all \cup last
    ELSE ListsFrom(all \cup last, Distinct(Extended(last)), n - 1)

ReflectionLists == ListsFrom({}, {<<>>}, MaxReflected)

NextGroups ==
    /\ hist.calls < MaxCreateCalls
    /\ DoCreate({VS, PS}, ReflectionLists)

SpecGroups == Init /\ [][NextGroups]_vars

\* the last call created a shader of this type that declares these buffers
CreatedType == call.args[1]
CreatedNames == call.args[2]

\* the slots no buffer of the created shader with a name of the table has
FreeSlots ==
    ParameterGroups \
        {ShaderParameterGroupMap(CreatedType)[n] :
            n \in NamesIn(CreatedNames) \cap DOMAIN ShaderParameterGroupMap(CreatedType)}

\* buffer i of the reflection has a name that is not in the table
Unlisted(i) == CreatedNames[i] \notin DOMAIN ShaderParameterGroupMap(CreatedType)

\* the slot of every buffer is the one of the table, or for the k-th buffer
\* with a name not in the table the k-th smallest free slot
FirstFitSlots ==
    \A i \in 1..Len(CreatedNames) :
        IF Unlisted(i)
        THEN \E x \in FreeSlots :
                /\ Cardinality({y \in FreeSlots : y < x})
                        = Cardinality({j \in 1..(i - 1) : Unlisted(j)})
                /\ call.result[i] = x
        ELSE call.result[i] = ShaderParameterGroupMap(CreatedType)[CreatedNames[i]]

\* C23: in ShaderVariation::Create every constant buffer with a name of the
\* stage's table gets the slot of the table, and the k-th constant buffer, in
\* reflection order, with a name not in the table gets the k-th smallest slot
\* that no buffer of the shader with a name of the table has.
C23_FirstFit == call.op = "Create" => FirstFitSlots

\* the same for a shader with no more constant buffers than there are slots
C23_FirstFitOfFewBuffers ==
    (call.op = "Create" /\ Len(CreatedNames) <= MAX_SHADER_PARAMETER_GROUPS) => FirstFitSlots

\* every buffer has a slot of the arrays and no two have the same
SlotsDistinct ==
    /\ \A i \in 1..Len(CreatedNames) : call.result[i] \in ParameterGroups
    /\ \A i, j \in 1..Len(CreatedNames) : call.result[i] = call.result[j] => i = j

\* C24: however many constant buffers the reflection holds, each gets a slot
\* in 0..MAX_SHADER_PARAMETER_GROUPS-1 that no other constant buffer of the
\* shader has: the arrays are never indexed beyond their last element.
C24_SlotsInBoundsAndDistinct == call.op = "Create" => SlotsDistinct

\* the same for a shader with no more constant buffers than there are slots
C24_FewBuffersInBoundsAndDistinct ==
    (call.op = "Create" /\ Len(CreatedNames) <= MAX_SHADER_PARAMETER_GROUPS) => SlotsDistinct

\* a shader whose last constant buffer is written at the index one past the
\* last element of the arrays
C24_IndexedBeyond ==
    /\ call.op = "Create"
    /\ Len(CreatedNames) > 0
    /\ call.result[Len(CreatedNames)] = MAX_SHADER_PARAMETER_GROUPS

-----------------------------------------------------------------------------
(* The bit fields of the state hashes                                      *)

\* stencil tests with the smallest and the greatest modes, operations and
\* masks
PackedStencils ==
    {<<TRUE, mode, pass, fail, zFail, 0, compareMask, writeMask>> :
        mode \in {CMP_ALWAYS, 6}, pass \in {OP_KEEP, 4}, fail \in {OP_KEEP, 4},
        zFail \in {OP_KEEP}, compareMask \in {M_MAX_UNSIGNED, 256},
        writeMask \in {M_MAX_UNSIGNED}}
    \cup {<<TRUE, 6, 4, 4, 4, 0, 255, 257>>}

\* depth biases whose scaled value is negative, or does not fit 13 bits
PackedBiases == {0, 0 - 1, 8191, 8192}

NextPacking ==
    \/ /\ hist.calls < MaxPackCalls
       /\ \/ DoSetShaders({"vsA"}, {"psA"}, {TRUE})
          \/ DoSetBlendMode({BLEND_REPLACE, 8}, BOOLEAN)
          \/ DoSetColorWrite
          \/ DoSetCullMode(CullModes)
          \/ DoSetDepthBias(PackedBiases, PackedBiases)
          \/ DoSetDepthStencil({NULL, "rsD16"})
          \/ DoSetDepthTest({CMP_ALWAYS, 6})
          \/ DoSetDepthWrite
          \/ DoSetFillMode(FillModes)
          \/ DoSetLineAntiAlias
          \/ DoSetScissorTest({IntRect(0, 0, 2, 2)})
          \/ DoSetStencilTest(PackedStencils)
    \/ DoDraw({TRIANGLE_LIST}, {3}, {TRUE})

SpecPacking == Init /\ [][NextPacking]_vars

\* bits from bit `from` on, `width` of them, of the 32-bit pattern h
Field(h, from, width) == (h \div Pow2(from)) % Pow2(width)

\* what each hash is made of
BlendInputs(s) == <<Bit(s.colorWrite_), Bit(s.alphaToCoverage_), s.blendMode_>>
DepthInputs(s) ==
    <<Bit(s.depthWrite_), Bit(s.stencilTest_), s.depthTestMode_,
      s.stencilCompareMask_ % 256, s.stencilWriteMask_ % 256, s.stencilTestMode_,
      s.stencilFail_, s.stencilZFail_, s.stencilPass_>>
RasterizerInputs(s) ==
    <<Bit(s.scissorTest_), Bit(s.lineAntiAlias_), s.fillMode_, s.cullMode_,
      ScaledDepthBias(s) % 8192, s.slopeScaledDepthBias_ % 8192>>

\* the inputs read back from the bit fields of a hash
BlendFields(h) == <<Field(h, 0, 1), Field(h, 1, 1), Field(h, 2, 30)>>
DepthFields(h) ==
    <<Field(h, 0, 1), Field(h, 1, 1), Field(h, 2, 3), Field(h, 5, 8), Field(h, 13, 8),
      Field(h, 21, 3), Field(h, 24, 7) % 5, (Field(h, 24, 7) \div 5) % 5,
      Field(h, 24, 7) \div 25>>
RasterizerFields(h) ==
    <<Field(h, 0, 1), Field(h, 1, 1), Field(h, 2, 2), Field(h, 4, 2), Field(h, 6, 13),
      Field(h, 19, 13)>>

\* every input can be read back from its own bits of the hash, and the depth
\* hash leaves bit 31 clear
FieldsReadBack(s) ==
    /\ BlendFields(BlendStateHash(s)) = BlendInputs(s)
    /\ DepthFields(DepthStateHash(s)) = DepthInputs(s)
    /\ DepthStateHash(s) >= 0
    /\ RasterizerFields(RasterizerStateHash(s)) = RasterizerInputs(s)

\* C25: two states have the same blend hash exactly when they agree on color
\* write, alpha-to-coverage and blend mode, the same depth hash exactly when
\* they agree on depth write, stencil enable, depth compare mode, the masks
\* mod 256, the stencil compare mode and the three stencil operations, and
\* the same rasterizer hash exactly when they agree on scissor enable, line
\* anti-alias, fill mode, cull mode and the two biases mod 2^13: every input
\* has bits of its own in the 32-bit hash.
C25_HashesInjective ==
    [][/\ FieldsReadBack(g')
       /\ BlendStateHash(g') = BlendStateHash(g) <=> BlendInputs(g') = BlendInputs(g)
       /\ DepthStateHash(g') = DepthStateHash(g) <=> DepthInputs(g') = DepthInputs(g)
       /\ RasterizerStateHash(g') = RasterizerStateHash(g)
            <=> RasterizerInputs(g') = RasterizerInputs(g)]_vars

\* a draw recorded a depth hash with the stencil mode and the stencil
\* operations at their greatest values and a compare mask of eight bits
C25_Witness ==
    /\ AcceptedDraw
    /\ g.depthStateHash_ = DepthStateHash(g)
    /\ g.stencilTest_ /\ g.stencilTestMode_ = 6
    /\ g.stencilCompareMask_ = 255
    /\ <<g.stencilFail_, g.stencilZFail_, g.stencilPass_>> = <<4, 4, 4>>

-----------------------------------------------------------------------------
(* A draw with a vertex declaration hash of zero                           *)

\* the step is an accepted draw that computes the vertex declaration hash
\* and gets zero
ZeroHashDraw ==
    /\ AcceptedDraw'
    /\ g.vertexDeclarationDirty_
    /\ NewVertexDeclarationHash(g, 0) = Zero64

\* before the step nothing but the vertex declaration asks for a pipeline:
\* shaders, blend, depth and rasterizer state are clean and the draw is of
\* the primitive type recorded
OnlyDeclarationDirty ==
    /\ ~g.vertexShaderDirty_ /\ ~g.pixelShaderDirty_
    /\ ~g.blendStateDirty_ /\ ~g.depthStateDirty_ /\ ~g.rasterizerStateDirty_
    /\ ~g.primitiveTypeDirty_ /\ g'.primitiveType_ = g.primitiveType_

\* C26: a draw whose combined vertex declaration hash is zero keeps the
\* recorded hash, and when nothing but the vertex buffers asks for it, it
\* neither looks up nor builds a pipeline: the pipeline cache and the
\* current pipeline stay.
C26_ZeroHashInert ==
    [][ZeroHashDraw =>
        /\ g'.vertexDeclarationHash_ = g.vertexDeclarationHash_
        /\ OnlyDeclarationDirty =>
            /\ Builds(g') = 0
            /\ g'.pipelines = g.pipelines
            /\ g'.pipelineStates_ = g.pipelineStates_
            /\ g'.currentPipelineState_ = g.currentPipelineState_]_vars

\* a draw made after the vertex buffers were unbound: the hash it computes
\* is zero, the recorded one is the one of the draw before, nothing is built
C26_Witness ==
    /\ AcceptedDraw
    /\ call.before.draws # {}
    /\ call.before.vbChanged # {}
    /\ NewVertexDeclarationHash(g, 0) = Zero64
    /\ g.vertexDeclarationHash_ # Zero64
    /\ Builds(g) = 0

-----------------------------------------------------------------------------
(* Shaders that do not compile                                             *)

NextCompile ==
    \/ /\ hist.calls < MaxCompileCalls
       /\ \/ DoSetShaders({"vsA", "vsBad"}, {"psA", "psBad"}, {TRUE})
          \/ DoRelease({"vsBad", "psBad"})
    \/ DoDraw({TRIANGLE_LIST}, {3}, {TRUE})
    \/ DoDrawIndexed({TRIANGLE_LIST}, {3}, {3}, {TRUE})
    \/ DoDrawInstanced({TRIANGLE_LIST}, {3}, {1}, {TRUE})

SpecCompile == Init /\ [][NextCompile]_vars

\* creation of sh has failed: no GPU object, compiler output not empty
CreationFailed(s, sh) == ~s.shaderObject_[sh] /\ s.compilerOutput_[sh]

\* the last call of s tried to create sh
Attempted(s, sh) ==
    \E i \in 1..Len(s.log) : s.log[i].op = "CreateShader" /\ s.log[i].shader = sh

\* the step is SetShaders with shader sh as the vertex shader, or as the
\* pixel shader
NamesVertexShader(sh) == call'.op = "SetShaders" /\ call'.args[1] = sh
NamesPixelShader(sh) == call'.op = "SetShaders" /\ call'.args[2] = sh

\* C27: a creation that fails leaves compiler output and no GPU object, and
\* that stays so; from then on no SetShaders naming the shader tries to
\* create it again, each such call leaves the stage of the shader unbound and
\* the shader program null, and with a null shader program every draw is
\* refused.
C27_NoCompileRetry ==
    [][/\ \A sh \in Shaders :
            /\ (Attempted(g', sh) /\ ~Compiles(sh)) => CreationFailed(g', sh)
            /\ CreationFailed(g, sh) => CreationFailed(g', sh)
            /\ (CreationFailed(g, sh) /\ (NamesVertexShader(sh) \/ NamesPixelShader(sh)))
                => /\ ~Attempted(g', sh)
                   /\ NamesVertexShader(sh) => g'.vertexShader_ = NULL
                   /\ NamesPixelShader(sh) => g'.pixelShader_ = NULL
                   /\ g'.shaderProgram_ = 0
       /\ (call'.op \in {"Draw", "DrawIndexed", "DrawInstanced"} /\ g.shaderProgram_ = 0)
            => /\ ~call'.accepted
               /\ g'.numBatches_ = g.numBatches_
               /\ g'.log = <<>>]_vars

\* SetShaders named a vertex shader whose creation had failed in a call
\* before, after a SetShaders that bound a program
C27_Witness ==
    /\ call.op = "SetShaders" /\ call.args[1] = "vsBad"
    /\ CreationFailed(g, "vsBad")
    /\ ~Attempted(g, "vsBad")
    /\ g.shaderProgram_ = 0
    /\ Len(g.shaderPrograms_) > 0

-----------------------------------------------------------------------------
(* Resolve of a multisampled render target when it is read                 *)

\* texM is multisampled with auto-resolve and rsM is its surface
NextResolve ==
    \/ /\ hist.calls < MaxResolveCalls
       /\ \/ DoSetShaders({"vsA"}, {"psA"}, {TRUE})
          \/ DoSetRenderTarget({0, 1}, {NULL, "rsM", "rsA"})
          \/ DoSetTexture({0, 2}, {NULL, "texM", "texA"})
    \/ DoDraw({TRIANGLE_LIST}, {3}, {TRUE})

SpecResolve == Init /\ [][NextResolve]_vars

\* the resolves of texture t the last call of s made
Resolves(s, t) ==
    Cardinality({i \in 1..Len(s.log) :
        s.log[i].op = "ResolveTextureSubresource" /\ s.log[i].texture = t})

\* t is the parent texture of the render target of slot 0
IsFirstRenderTarget(s, t) ==
    s.renderTargets_[0] # NULL /\ ParentTexture(s.renderTargets_[0]) = t

\* the step binds a surface of texture t as a render target
BindsSurfaceOf(t) ==
    /\ call'.op = "SetRenderTarget"
    /\ ULess(call'.args[1], MAX_RENDERTARGETS)
    /\ call'.args[2] # NULL
    /\ call'.args[2] # g.renderTargets_[call'.args[1]]
    /\ ParentTexture(call'.args[2]) = t

\* the step is SetTexture of t for a texture unit while t is not the render
\* target of slot 0
ReadsTexture(t) ==
    /\ call'.op = "SetTexture"
    /\ ULess(call'.args[1], MAX_TEXTURE_UNITS)
    /\ call'.args[2] = t
    /\ ~IsFirstRenderTarget(g, t)

-----------------------------------------------------------------------------
(* The views a draw binds                                                  *)

\* rsA is a render target of the size of the backbuffer and rsB a smaller
\* one; rsD16 is a depth-stencil of the size of the backbuffer and rsD24 a
\* smaller one
NextTargets ==
    \/ /\ hist.calls < MaxTargetCalls
       /\ \/ DoSetShaders({"vsA"}, {"psA"}, {TRUE})
          \/ DoSetRenderTarget({0, 1}, {NULL, "rsB", "rsD16"})
          \/ DoSetDepthStencil({NULL, "rsA", "rsD16", "rsD24"})
          \/ DoSetDepthWrite
    \/ DoDraw({TRIANGLE_LIST}, {3}, {TRUE})

SpecTargets == Init /\ [][NextTargets]_vars

\* no render target in slot 0, and no depth-stencil or one of the size of
\* the backbuffer
BackbufferWanted(s) ==
    /\ s.renderTargets_[0] = NULL
    /\ \/ s.depthStencil_ = NULL
       \/ /\ SurfaceWidth(s.depthStencil_) = BackbufferWidth
          /\ SurfaceHeight(s.depthStencil_) = BackbufferHeight

\* a depth-stencil with depth-stencil usage is bound
DepthStencilBound(s) ==
    s.depthStencil_ # NULL /\ SurfaceUsage(s.depthStencil_) = TEXTURE_DEPTHSTENCIL

\* the SetRenderTargets call of the last call of s
TargetBind(s) == s.log[FirstCall(s, "SetRenderTargets")]

\* C29: a draw that finds the render targets dirty binds them once; the
\* color view of slot 0 is the default backbuffer view exactly when slot 0
\* holds no render target and there is no depth-stencil or it has the width
\* and height of the backbuffer; the depth view is the view of the bound
\* depth-stencil when it has depth-stencil usage and the default depth view
\* otherwise; afterwards the render targets are not dirty.
C29_TargetViews ==
    [][(AcceptedDraw' /\ g.renderTargetsDirty_) =>
        /\ FirstCall(g', "SetRenderTargets") # 0
        /\ FirstCall(g', "SetRenderTargets") = LastCall(g', "SetRenderTargets")
        /\ TargetBind(g').views = g'.renderTargetViews_
        /\ TargetBind(g').depthStencil = g'.depthStencilView_
        /\ g'.renderTargetViews_[0] = DefaultRenderTargetView <=> BackbufferWanted(g)
        /\ g'.depthStencilView_ =
                IF DepthStencilBound(g) THEN RenderTargetViewOf(g.depthStencil_)
                ELSE DefaultDepthStencilView
        /\ ~g'.renderTargetsDirty_]_vars

\* a draw bound no color view in slot 0: no render target is in slot 0 and
\* the depth-stencil is smaller than the backbuffer
C29_Witness ==
    /\ AcceptedDraw
    /\ FirstCall(g, "SetRenderTargets") # 0
    /\ g.renderTargets_[0] = NULL
    /\ g.depthStencil_ = "rsD24"
    /\ g.renderTargetViews_[0] = NULL
    /\ g.depthStencilView_ = RenderTargetViewOf("rsD24")

-----------------------------------------------------------------------------
(* The input layout of the pipeline a draw uses                            *)

\* the pipeline the device was given by the last draw
BoundPipeline(s) == s.pipelines[s.currentPipelineState_]

\* C30: the input layout of the pipeline an accepted draw sets on the device
\* is the layout of the vertex buffers bound at that draw.
C30_LayoutOfBoundBuffers ==
    AcceptedDraw => BoundPipeline(g).layoutElements = MergeStreams(g, <<>>, 0)

\* what the lookup keeps: the pipeline an accepted draw sets was built under
\* the vertex declaration hash that is recorded at that draw
C30_PipelineOfRecordedHash ==
    AcceptedDraw => BoundPipeline(g).key[6] = g.vertexDeclarationHash_

\* a draw with buffers bound uses a pipeline that was built for other ones
C30_ForeignLayout ==
    /\ AcceptedDraw
    /\ \E i \in Streams : g.vertexBuffers_[i] # NULL
    /\ BoundPipeline(g).layoutElements # MergeStreams(g, <<>>, 0)

-----------------------------------------------------------------------------
(* What a draw leaves of the scissor test and the viewport                 *)

\* rsB is a render target smaller than the backbuffer
NextPrepare ==
    \/ /\ hist.calls < MaxPrepareCalls
       /\ \/ DoSetShaders({"vsA"}, {"psA"}, {TRUE})
          \/ DoSetScissorTest({IntRect(0, 0, 2, 2)})
          \/ DoSetViewport({IntRect(0, 0, 4, 4), IntRect(1, 1, 3, 3)})
          \/ DoSetRenderTarget({0}, {NULL, "rsB"})
          \/ DoSetDepthWrite
    \/ DoDraw({TRIANGLE_LIST}, {3}, {TRUE})

SpecPrepare == Init /\ [][NextPrepare]_vars

\* the scissor test, the scissor rectangle and the viewport as recorded
CallerState(s) == <<s.scissorTest_, s.scissorRect_, s.viewport_>>

\* C31: a draw call leaves the scissor-test flag, the scissor rectangle and
\* the viewport as they were recorded when it was called, also when it
\* finds the render targets dirty and applies the viewport again.
C31_DrawKeepsCallerState ==
    [][call'.op \in DrawCalls => CallerState(g') = CallerState(g)]_vars

\* what a draw does keep: the scissor rectangle always, and all three when
\* the render targets are not dirty; a draw that finds them dirty leaves the
\* scissor test off and the viewport clamped to the render target
C31_DrawKeepsCleanCallerState ==
    [][call'.op \in DrawCalls =>
        /\ g'.scissorRect_ = g.scissorRect_
        /\ ~g.renderTargetsDirty_ => CallerState(g') = CallerState(g)
        /\ (AcceptedDraw' /\ g.renderTargetsDirty_) =>
            /\ ~g'.scissorTest_
            /\ g'.viewport_.right_ <= GetRenderTargetDimensions(g)[1]
            /\ g'.viewport_.bottom_ <= GetRenderTargetDimensions(g)[2]]_vars

\* a draw was accepted and the scissor test the caller had enabled before
\* it is off
C31_ScissorLost ==
    /\ AcceptedDraw
    /\ ~g.scissorTest_
    /\ g.scissorRect_ = IntRect(0, 0, 2, 2)

-----------------------------------------------------------------------------
(* The dirty flags a draw leaves                                           *)

NextDirt ==
    \/ /\ hist.calls < MaxDirtCalls
       /\ \/ DoSetShaders({"vsA"}, {"psA", "psB"}, {TRUE})
          \/ DoSetVertexBuffers({<<"vbA">>, <<"vbA", "vbI">>}, {0})
          \/ DoSetTexture({0}, {"texA", "texC"})
          \/ DoSetBlendMode({BLEND_ADD}, {FALSE})
          \/ DoSetDepthTest({CMP_EQUAL})
          \/ DoSetStencilTest(StencilReferences)
          \/ DoSetScissorTest({IntRect(0, 0, 2, 2)})
          \/ DoSetDepthStencil({NULL, "rsD16"})
    \/ DoDraw({TRIANGLE_LIST, LINE_LIST}, {3}, {TRUE})

SpecDirt == Init /\ [][NextDirt]_vars

\* the flags PrepareDraw sets to false on the way of an accepted draw
ConsumedFlags(s) ==
    {s.renderTargetsDirty_, s.vertexShaderDirty_, s.pixelShaderDirty_,
     s.primitiveTypeDirty_, s.blendStateDirty_, s.depthStateDirty_,
     s.rasterizerStateDirty_, s.texturesDirty_, s.scissorRectDirty_}

\* the flags PrepareDraw reads and never writes
ReadFlags(s) == {s.vertexDeclarationDirty_, s.stencilRefDirty_}

\* both dirty ranges are empty
RangesEmpty(s) ==
    /\ s.firstDirtyVB_ = M_MAX_UNSIGNED /\ s.lastDirtyVB_ = M_MAX_UNSIGNED
    /\ s.firstDirtyTexture_ = M_MAX_UNSIGNED /\ s.lastDirtyTexture_ = M_MAX_UNSIGNED

\* the device calls of the last call, by name
DeviceCalls(s) == {s.log[i].op : i \in 1..Len(s.log)}

\* C32: after an accepted draw every dirty flag PrepareDraw consults
\* (vertex shader, pixel shader, blend, depth, rasterizer, primitive type,
\* vertex declaration, stencil reference, textures, scissor rectangle,
\* render targets) is false and both dirty ranges are empty.
C32_DrawConsumesDirt ==
    AcceptedDraw =>
        /\ TRUE \notin ConsumedFlags(g) \cup ReadFlags(g)
        /\ RangesEmpty(g)

\* what an accepted draw leaves: the flags it writes are false and both
\* ranges are empty; the vertex-declaration flag and the stencil-reference
\* flag are true, as they have been since construction
C32_DrawConsumesWrittenDirt ==
    /\ ReadFlags(g) = {TRUE}
    /\ AcceptedDraw => (ConsumedFlags(g) = {FALSE} /\ RangesEmpty(g))

\* an accepted draw of the same primitive type that follows an accepted
\* draw at once looks up and builds no pipeline and binds nothing anew: it
\* sets the current pipeline, commits the shader resources and draws
C32_SecondDrawResolvesNothing ==
    [][(AcceptedDraw /\ AcceptedDraw' /\ call'.draw.type = call.draw.type) =>
        /\ DeviceCalls(g') = {"SetPipelineState", "CommitShaderResources", "Draw"}
        /\ g'.currentPipelineState_ = g.currentPipelineState_
        /\ g'.pipelineStates_ = g.pipelineStates_
        /\ PipelineKey(g') = PipelineKey(g)]_vars

\* an accepted draw followed an accepted draw at once and the
\* vertex-declaration flag is set
C32_FlagLeft ==
    /\ AcceptedDraw
    /\ g.numBatches_ = 2
    /\ call.before.calls = hist.calls
    /\ g.vertexDeclarationDirty_
    /\ g.stencilRefDirty_
    /\ g.stencilRef_ # 0

-----------------------------------------------------------------------------
(* The shader program and the pipeline of an accepted draw                 *)

NextProgram ==
    \/ /\ hist.calls < MaxProgramCalls
       /\ \/ DoSetShaders({NULL, "vsA", "vsBad"}, {NULL, "psA", "psB"}, {TRUE})
          \/ DoRelease({"vsA"})
          \/ DoSetIndexBuffer({"ibA"})
          \/ DoSetCullMode({CULL_CW})
    \/ DoDraw({TRIANGLE_LIST}, {0, 3}, {TRUE})
    \/ DoDrawIndexed({TRIANGLE_LIST}, {3}, {3}, {TRUE})
    \/ DoDrawInstanced({TRIANGLE_LIST}, {3}, {1}, {TRUE})

SpecProgram == Init /\ [][NextProgram]_vars

\* the device call named op of the last call of s
DeviceCall(s, op) == s.log[FirstCall(s, op)]

\* C33: the shader program is not null exactly when the vertex shader and
\* the pixel shader are both not null; a draw call that passes its guard
\* is prepared to the end: the pipeline it sets on the device and the
\* resource binding it commits are not null, the pipeline is one the device
\* created and it was built from the two shaders that are bound.
C33_AcceptedDrawHasPipeline ==
    /\ g.shaderProgram_ # 0 <=> (g.vertexShader_ # NULL /\ g.pixelShader_ # NULL)
    /\ (call.op \in DrawCalls /\ ~call.empty
            /\ g.shaderProgram_ # 0)
        => /\ call.accepted
           /\ FirstCall(g, "SetPipelineState") # 0
           /\ DeviceCall(g, "SetPipelineState").pipeline # 0
           /\ DeviceCall(g, "SetPipelineState").pipeline \in 1..Len(g.pipelines)
           /\ FirstCall(g, "CommitShaderResources") # 0
           /\ DeviceCall(g, "CommitShaderResources").binding # 0
           /\ DeviceCall(g, "CommitShaderResources").binding
                = DeviceCall(g, "SetPipelineState").pipeline
           /\ BoundPipeline(g).vertexShader = g.vertexShader_
           /\ BoundPipeline(g).pixelShader = g.pixelShader_

\* a draw was accepted after the program had been null again: a vertex
\* shader failed to compile, two programs exist and the draw built nothing
C33_Witness ==
    /\ AcceptedDraw
    /\ CreationFailed(g, "vsBad")
    /\ Len(g.shaderPrograms_) = 2
    /\ DeviceCall(g, "SetPipelineState").pipeline # 0
    /\ Builds(g) = 0

-----------------------------------------------------------------------------
(* The dirty ranges of the texture units and of the vertex streams         *)

\* rsB is the surface of texB, whose backup texture is texC; unit 16 is no
\* texture unit
NextRanges ==
    \/ /\ hist.calls < MaxRangesCalls
       /\ \/ DoSetShaders({"vsA"}, {"psA"}, {TRUE})
          \/ DoSetTexture({0, 2, 5, MAX_TEXTURE_UNITS}, {NULL, "texA", "texB"})
          \/ DoSetRenderTarget({0}, {NULL, "rsB"})
          \/ DoReleaseTexture({"texC"})
          \/ DoSetVertexBuffers({<<>>, <<"vbA">>, <<"vbA", "vbI">>, <<NULL, "vbB", NULL, "vbA">>},
                                {0, 1})
    \/ DoDraw({TRIANGLE_LIST}, {3}, {TRUE})

SpecRanges == Init /\ [][NextRanges]_vars

\* first and last are the empty sentinel, or 0 <= first <= last < count as
\* unsigned values; and each of the changed slots lies from first to last
WellFormed(first, last, count, changed) ==
    /\ \/ first = M_MAX_UNSIGNED /\ last = M_MAX_UNSIGNED
       \/ /\ ~ULess(last, first)
          /\ ULess(last, count)
    /\ \A i \in changed :
        /\ first # M_MAX_UNSIGNED
        /\ ~ULess(i, first)
        /\ ~ULess(last, i)

\* C34: in every reachable state the dirty range of the texture units and
\* the dirty range of the vertex streams are each empty (first and last
\* both the sentinel) or satisfy first <= last < number of units or
\* streams, and every unit or stream whose binding a call has changed
\* since the range was cleared lies within it; an accepted draw leaves
\* both ranges empty.
C34_DirtyRangesWellFormed ==
    /\ WellFormed(g.firstDirtyTexture_, g.lastDirtyTexture_, MAX_TEXTURE_UNITS,
                  hist.texChanged)
    /\ WellFormed(g.firstDirtyVB_, g.lastDirtyVB_, MAX_VERTEX_STREAMS, hist.vbChanged)
    /\ AcceptedDraw => RangesEmpty(g)

\* two calls widened the range of the vertex streams to streams 0 to 3 and
\* the range of the texture units holds a unit another call had changed
C34_Witness ==
    /\ g.firstDirtyVB_ = 0 /\ g.lastDirtyVB_ = 3
    /\ hist.vbChanged = {0, 1, 3}
    /\ g.firstDirtyTexture_ # M_MAX_UNSIGNED
    /\ hist.texChanged # {}

-----------------------------------------------------------------------------
(* What ends the lock of a vertex or index buffer                          *)

\* the lock state of buffer b
LockState(s, b) == s.bufferObjects[b].lockState_

\* the step is the call named op on buffer b
CallOn(op, b) == call'.op = op /\ call'.args[1] = b

\* C37: a buffer that is locked stays locked through every call but Unlock
\* on it, SetData and SetDataRange on it included, and Unlock leaves the
\* buffer unlocked.
C37_LockEndedByUnlockOnly ==
    [][\A b \in BufferObjects :
        /\ (LockState(g, b) # "LOCK_NONE" /\ ~CallOn("Unlock", b))
                => LockState(g', b) = LockState(g, b)
        /\ CallOn("Unlock", b) => LockState(g', b) = "LOCK_NONE"]_vars

\* what holds: Unlock leaves every buffer unlocked, a call on another
\* buffer leaves the lock alone, and the lock of a buffer that is not
\* dynamic is ended by Unlock only
C37_StaticLockEndedByUnlockOnly ==
    [][\A b \in BufferObjects :
        /\ (LockState(g, b) # "LOCK_NONE" /\ ~CallOn("Unlock", b)
                /\ (~Dynamic(b) \/ call'.args[1] # b))
                => LockState(g', b) = LockState(g, b)
        /\ CallOn("Unlock", b) => LockState(g', b) = "LOCK_NONE"]_vars

-----------------------------------------------------------------------------
(* The list of dirty constant buffers                                      *)

\* the constant buffers there are
ConstantBuffers(s) == 1..Len(s.constantBuffers)

\* buffer b is in dirtyConstantBuffers_
Listed(s, b) == \E i \in 1..Len(s.dirtyConstantBuffers_) : s.dirtyConstantBuffers_[i] = b

\* no buffer is in dirtyConstantBuffers_ twice
ListedOnce(s) ==
    \A i, j \in 1..Len(s.dirtyConstantBuffers_) :
        i # j => s.dirtyConstantBuffers_[i] # s.dirtyConstantBuffers_[j]

\* C35: in every reachable state no constant buffer is in the list of dirty
\* constant buffers twice, and a constant buffer is in the list exactly when
\* its dirty flag is set.
C35_DirtyListExact ==
    /\ ListedOnce(g)
    /\ \A b \in ConstantBuffers(g) : Listed(g, b) <=> g.constantBuffers[b].dirty_

\* what holds: no buffer is listed twice, a listed buffer is dirty, and a
\* dirty buffer that has its device buffer is listed
C35_DirtyListOfCreatedBuffers ==
    /\ ListedOnce(g)
    /\ \A b \in ConstantBuffers(g) :
        /\ Listed(g, b) => g.constantBuffers[b].dirty_
        /\ (g.constantBuffers[b].dirty_ /\ g.constantBuffers[b].object_) => Listed(g, b)

\* an accepted draw has emptied the list and left a buffer dirty
C35_DirtyUnlisted ==
    /\ AcceptedDraw
    /\ g.dirtyConstantBuffers_ = <<>>
    /\ \E b \in ConstantBuffers(g) :
        g.constantBuffers[b].dirty_ /\ ~g.constantBuffers[b].object_

-----------------------------------------------------------------------------
(* The primitive counter's growth                                          *)

\* a 32-bit unsigned counter went from before to after by growing by some
\* d of at most m
GrowsAtMost(before, after, m) == \E d \in 0..m : Add32(before, d) = after

\* C36: every accepted draw increases the primitive counter by at most the
\* number of elements submitted times the instance count, for every element
\* count of at least 1 and every primitive type, in 32-bit unsigned
\* arithmetic; a TRIANGLE_STRIP draw of fewer than 3 elements and a
\* LINE_STRIP draw of fewer than 2 add 0.
C36_NeverOvercounts ==
    [][(AcceptedDraw' /\ call'.draw.count >= 1) =>
        /\ GrowsAtMost(g.numPrimitives_, g'.numPrimitives_,
                       call'.draw.count * call'.draw.instances)
        /\ LET t == IF g.fillMode_ = FILL_POINT THEN POINT_LIST ELSE call'.draw.type
           IN  \/ t = TRIANGLE_STRIP /\ call'.draw.count < 3
               \/ t = LINE_STRIP /\ call'.draw.count < 2
               => g'.numPrimitives_ = g.numPrimitives_]_vars

\* the same for draws that hand over at least two elements
C36_NeverOvercountsTwoOrMore ==
    [][(AcceptedDraw' /\ call'.draw.count >= 2) =>
        GrowsAtMost(g.numPrimitives_, g'.numPrimitives_,
                    call'.draw.count * call'.draw.instances)]_vars

\* the first accepted draw, a triangle strip of one element, has left the
\* counter at 4294967295 (held as -1)
C36_Overcounted ==
    /\ AcceptedDraw
    /\ call.draw.type = TRIANGLE_STRIP /\ call.draw.count = 1
    /\ g.numBatches_ = 1
    /\ g.numPrimitives_ = M_MAX_UNSIGNED

-----------------------------------------------------------------------------
(* Releasing a vertex buffer                                               *)

\* Lock is called on buffers that have not been released
NextUnbind ==
    /\ hist.calls < MaxUnbindCalls
    /\ \/ DoSetVertexBuffers({<<"vbA">>, <<"vbB", "vbA">>, <<"vbA", "vbB", "vbI">>}, {0, 1})
       \/ /\ g.bufferObjects["vbA"].deviceData # <<>>
          /\ DoLock({"vbA"}, {0, 2}, {2}, {TRUE})
       \/ DoReleaseVertexBuffer({"vbA", "vbB"})

SpecUnbind == Init /\ [][NextUnbind]_vars

\* the step is a Release of a vertex buffer that a stream held
ReleasesBound(b) ==
    /\ call'.op = "ReleaseVertexBuffer" /\ call'.args[1] = b
    /\ \E i \in Streams : g.vertexBuffers_[i] = b

\* C38: after VertexBuffer::Release on a buffer bound to some stream, no
\* stream refers to the released buffer, and every stream that was bound to
\* a different vertex buffer still holds that buffer with its offset
\* unchanged.
C38_ReleaseUnbindsOnlyThatBuffer ==
    [][\A b \in {"vbA", "vbB"} : ReleasesBound(b) =>
        \A i \in Streams :
            /\ g'.vertexBuffers_[i] # b
            /\ g.vertexBuffers_[i] \notin {NULL, b} =>
                /\ g'.vertexBuffers_[i] = g.vertexBuffers_[i]
                /\ g'.vertexOffsets_[i] = g.vertexOffsets_[i]]_vars

\* what holds: a Release of a bound buffer leaves every stream without a
\* buffer and the buffer unlocked, a Release of a buffer that no stream
\* holds leaves the streams as they were
C38_ReleaseUnbindsEveryStream ==
    [][\A b \in {"vbA", "vbB"} :
        (call'.op = "ReleaseVertexBuffer" /\ call'.args[1] = b) =>
            /\ g'.bufferObjects[b].lockState_ = "LOCK_NONE"
            /\ IF \E i \in Streams : g.vertexBuffers_[i] = b
               THEN \A i \in Streams :
                        /\ g'.vertexBuffers_[i] = NULL
                        /\ g'.vertexOffsets_[i] = 0
               ELSE /\ g'.vertexBuffers_ = g.vertexBuffers_
                    /\ g'.vertexOffsets_ = g.vertexOffsets_]_vars

\* a Release has taken the buffers of three streams, the instance stream
\* with its offset among them
C38_StreamsLost ==
    /\ call.op = "ReleaseVertexBuffer"
    /\ hist.vbChanged = {0, 1, 2}
    /\ \A i \in Streams : g.vertexBuffers_[i] = NULL /\ g.vertexOffsets_[i] = 0

====
